---- MODULE Spec2Model ----
(***************************************************************************)
(* Resolution-and-enrichment pipeline of src/api/main.py: the Entity       *)
(* Decomposer (process_unified_row), the Persistence Merge Layer and Batch *)
(* Coordinator (process_unified_batch, process_unified_upload) and the     *)
(* Fallback Cascade (enrich_missing_apns, move_out_of_fallback).           *)
(*                                                                         *)
(* Strings that the code parses (apn, zip, state) are sequences of         *)
(* one-character strings; None is the empty sequence, which Python's       *)
(* truthiness tests treat like "".  A row is the dict that                 *)
(* process_unified_upload builds: normalized column name -> stripped value.*)
(* Collections are sequences of documents, so that a duplicate document    *)
(* and a duplicated array value are expressible.                           *)
(***************************************************************************)
EXTENDS Integers, Sequences, FiniteSets, TLC

\* ------------------------------------------------------------------ bounds
MaxRows == 3
MaxRuns == 2
MaxEnrichRuns == 1
MaxLimit == 2
MaxFaults == 1
MaxCascadeUploads == 1
MaxCascadeRows == 2
\* batch_size of process_unified_upload, scaled down from 1000
batch_size == 2
\* ingestion runs whose bulk writes interleave at the store
MaxWriters == 2
\* rows that one sequence of process_unified_row calls routes to pending
MaxRouted == 2
\* pieces that an argument of a pure helper is put together from
MaxParts == 3

\* ------------------------------------------------------- program constants
APN_WIDTH == 10
ZIP_LEN == 5
MAX_RETRIES == 3

RETRY_DELAY == 2
CONFIDENCE_THRESHOLD == 80

None == <<>>

\* ----------------------------------------------------------------- strings
Digits == {"0", "1", "2", "3", "4", "5", "6", "7", "8", "9"}

IsDigit(c) == c \in Digits

IsSpace(c) == c = " "

RECURSIVE LStrip(_)
LStrip(s) == IF s # <<>> /\ IsSpace(Head(s)) THEN LStrip(Tail(s)) ELSE s

RECURSIVE RStrip(_)
RStrip(s) == IF s # <<>> /\ IsSpace(s[Len(s)]) THEN RStrip(SubSeq(s, 1, Len(s) - 1)) ELSE s

\* str.strip()
Strip(s) == RStrip(LStrip(s))

\* re.sub(r"[^\d]", "", s)
StripNonDigits(s) == SelectSeq(s, IsDigit)

\* str.zfill(w): pads on the left, never truncates
Zfill(s, w) ==
    IF Len(s) >= w THEN s
    ELSE [i \in 1..w |-> IF i <= w - Len(s) THEN "0" ELSE s[i - (w - Len(s))]]

UpperChar(c) ==
    CASE c = "w" -> "W"
      [] c = "a" -> "A"
      [] c = "c" -> "C"
      [] OTHER -> c

\* str.upper()
Upper(s) == [i \in 1..Len(s) |-> UpperChar(s[i])]

\* s[:n]
Prefix(s, n) == SubSeq(s, 1, IF Len(s) < n THEN Len(s) ELSE n)

\* str.lower() on the names and statuses of the row universe
Lower(s) ==
    CASE s = "JANE" -> "jane"
      [] s = "Jane" -> "jane"
      [] s = "Doe" -> "doe"
      [] s = "9 Oak Ave" -> "9 oak ave"
      [] s = "Active" -> "active"
      [] s = "Sold" -> "sold"
      [] OTHER -> s

\* position of the first "-" of s, 0 when there is none
RECURSIVE FirstDash(_, _)
FirstDash(s, i) ==
    IF i > Len(s) THEN 0
    ELSE IF s[i] = "-" THEN i
    ELSE FirstDash(s, i + 1)

\* ------------------------------------------------------------- validators
clean_apn(raw_apn) ==
    LET cleaned == StripNonDigits(Strip(raw_apn))
    IN  IF cleaned = <<>> THEN None ELSE Zfill(cleaned, APN_WIDTH)

validate_zip(zip_code) ==
    LET cleaned == StripNonDigits(Strip(zip_code))
    IN  IF Len(cleaned) = ZIP_LEN THEN cleaned ELSE None

\* row.get(key): None when the row has no such column
Get(row, key) == IF key \in DOMAIN row THEN row[key] ELSE None

RECURSIVE extract_best_zip(_, _)
extract_best_zip(row, zip_keys) ==
    IF zip_keys = <<>> THEN None
    ELSE LET zip_val == Get(row, Head(zip_keys))
             direct_clean == validate_zip(zip_val)
             dash == FirstDash(zip_val, 1)
             base_zip == SubSeq(zip_val, 1, dash - 1)
         IN  IF zip_val = <<>> THEN extract_best_zip(row, Tail(zip_keys))
             ELSE IF direct_clean # None THEN direct_clean
             ELSE IF dash > 0 /\ validate_zip(base_zip) # None THEN base_zip
             ELSE extract_best_zip(row, Tail(zip_keys))

\* phonenumbers.parse/is_valid_number/format_number(E164) minus "+1", on the
\* phone values of the row universe; None for a number that does not validate
clean_phone(phone) ==
    CASE phone = "206-555-0100" -> "2065550100"
      [] phone = "(206) 555-0100" -> "2065550100"
      [] phone = "206-555-0199" -> "2065550199"
      [] OTHER -> ""

\* email_validator.validate_email(...).normalized on the emails of the row
\* universe; "" for an address that raises EmailNotValidError
validate_email(email) ==
    CASE email = "a@x.com" -> "a@x.com"
      [] email = "B@x.com" -> "B@x.com"
      [] OTHER -> ""

\* parse_array: the value is given split on [|,;]; blank segments are dropped
parse_array(value) == SelectSeq(value, LAMBDA v : v # "")

\* sha256 is modelled as injective: the hash is the hashed text itself
generate_owner_hash(first_name, last_name, mailing_address, zip_code) ==
    <<Lower(first_name), Lower(last_name), Lower(mailing_address), zip_code>>

\* ------------------------------------------------------------ row mapping
\* keys of REQUIRED_COLUMN_MAPPINGS and OPTIONAL_COLUMN_MAPPINGS; a normalized
\* name that is a key maps to itself
MappedKeys ==
    {"apn", "first name", "last name", "property address", "property city",
     "property state", "property zip", "bedrooms", "bathrooms", "sqft", "year",
     "estimated value", "last sale price", "last sold", "mailing address",
     "mailing city", "mailing state", "mailing zip", "status", "tags", "email 1",
     "tax delinquent year", "tax delinquent value"}

map_column(column_name) == IF column_name \in MappedKeys THEN column_name ELSE ""

\* mapped_row of process_unified_row
MappedRow(row) ==
    [c \in {k \in DOMAIN row : map_column(k) # ""} |-> row[c]]

\* known_life_event_fields, in dict order
known_life_event_fields ==
    <<[field |-> "tax auction date", event_type |-> "TAX_AUCTION"],
      [field |-> "tax delinquent value", event_type |-> "TAX_DELINQUENCY"],
      [field |-> "tax delinquent year", event_type |-> "TAX_DELINQUENCY"],
      [field |-> "year behind on taxes", event_type |-> "TAX_DELINQUENCY"],
      [field |-> "lien type", event_type |-> "LIEN"],
      [field |-> "lien recording date", event_type |-> "LIEN"],
      [field |-> "foreclosure date", event_type |-> "FORECLOSURE"],
      [field |-> "bankruptcy recording date", event_type |-> "BANKRUPTCY"],
      [field |-> "divorce file date", event_type |-> "DIVORCE"],
      [field |-> "probate open date", event_type |-> "PROBATE"],
      [field |-> "personal representative", event_type |-> "PROBATE"],
      [field |-> "attorney on file", event_type |-> "PROBATE"],
      [field |-> "deed", event_type |-> "DEED_CHANGE"],
      [field |-> "last sold", event_type |-> "PROPERTY_SALE"],
      [field |-> "owned since", event_type |-> "OWNERSHIP_DURATION"]>>

\* first pattern of TAG_EVENT_PATTERNS that re.search finds in the lowercased
\* tag, on the tags of the row universe; "" when none matches
TagPatternEvent(tag) ==
    CASE tag = "vacant" -> "VACANT_HOME"
      [] tag = "probate" -> "PROBATE"
      [] OTHER -> ""

IsSaleReasonTag(tag) == tag \in {"high equity", "tired landlords", "empty nesters"}

IsConditionTag(tag) == tag \in {"poor condition", "fair condition"}

\* ------------------------------------------------------- Entity Decomposer
\* mutant of RowOutcome: the jurisdiction test of line 310 is missing
RowOutcomeNoJurisdiction(row) ==
    LET mapped_row == MappedRow(row)
        raw_apn == Get(mapped_row, "apn")
        apn == clean_apn(raw_apn)
        property_zip == extract_best_zip(row, <<"property zip 5", "property zip">>)
        mailing_zip == extract_best_zip(row, <<"mailing zip 5", "mailing zip">>)
    IN  IF Strip(raw_apn) = <<>> THEN "missing_apn"
        ELSE IF apn = None THEN "apn_not_numeric_or_too_short"
        ELSE IF property_zip = None THEN "invalid_property_zip"
        ELSE IF mailing_zip = None THEN "invalid_mailing_zip"
        ELSE "decomposed"

\* mutant of RowOutcome: the property zip is checked before the apn is parsed
RowOutcomeZipFirst(row) ==
    LET mapped_row == MappedRow(row)
        raw_apn == Get(mapped_row, "apn")
        apn == clean_apn(raw_apn)
        property_zip == extract_best_zip(row, <<"property zip 5", "property zip">>)
        mailing_zip == extract_best_zip(row, <<"mailing zip 5", "mailing zip">>)
    IN  IF Strip(raw_apn) = <<>> THEN "missing_apn"
        ELSE IF property_zip = None THEN "invalid_property_zip"
        ELSE IF apn = None THEN "apn_not_numeric_or_too_short"
        ELSE IF mailing_zip = None THEN "invalid_mailing_zip"
        ELSE IF Upper(Strip(Get(mapped_row, "property state"))) # <<"W", "A">> THEN "dropped"
        ELSE "decomposed"

\* the validation cascade of process_unified_row (lines 264-312)
RowOutcome(row) ==
    LET mapped_row == MappedRow(row)
        raw_apn == Get(mapped_row, "apn")
        apn == clean_apn(raw_apn)
        property_zip == extract_best_zip(row, <<"property zip 5", "property zip">>)
        mailing_zip == extract_best_zip(row, <<"mailing zip 5", "mailing zip">>)
    IN  IF Strip(raw_apn) = <<>> THEN "missing_apn"
        ELSE IF apn = None THEN "apn_not_numeric_or_too_short"
        ELSE IF property_zip = None THEN "invalid_property_zip"
        ELSE IF mailing_zip = None THEN "invalid_mailing_zip"
        ELSE IF Upper(Strip(Get(mapped_row, "property state"))) # <<"W", "A">> THEN "dropped"
        ELSE "decomposed"

PendingReasons ==
    {"missing_apn", "apn_not_numeric_or_too_short", "invalid_property_zip",
     "invalid_mailing_zip"}

\* field of a mapped row that holds a plain string, "" when absent
GetStr(mapped_row, key) == IF key \in DOMAIN mapped_row THEN mapped_row[key] ELSE ""

OwnerHashOf(row) ==
    LET mapped_row == MappedRow(row)
    IN  generate_owner_hash(GetStr(mapped_row, "first name"), GetStr(mapped_row, "last name"),
            GetStr(mapped_row, "mailing address"),
            extract_best_zip(row, <<"mailing zip 5", "mailing zip">>))

\* owner_id = "OWN-" + the first 8 hex digits of the hash
OwnerIdOf(normalized_owner_id) == <<"OWN", normalized_owner_id>>

\* phone_id = "PHONE-" + the first 8 hex digits of sha256(number)
PhoneIdOf(phone_number) == <<"PHONE", phone_number>>

\* a dict without keys
EmptyDoc == [k \in {} |-> 0]

\* fields of b laid over the fields of a
Merge(a, b) ==
    [k \in DOMAIN a \cup DOMAIN b |-> IF k \in DOMAIN b THEN b[k] ELSE a[k]]

\* datetime.strptime(value, "%Y-%m-%d %H:%M:%S") on the values of the row
\* universe: <<year, month, day>>, None when strptime raises
strptime(value) ==
    CASE value = "2020-01-01 00:00:00" -> <<2020, 1, 1>>
      [] value = "2022-02-02 00:00:00" -> <<2022, 2, 2>>
      [] OTHER -> None

\* safe_float on the values of the row universe; None for "" and for a value
\* float() rejects
safe_float(value) ==
    CASE value = "100000" -> 100000
      [] value = "200000" -> 200000
      [] OTHER -> None

\* the sale entry of lines 486-503: the fields the row adds to property_doc
SaleFields(mapped_row, now) ==
    LET last_sold == GetStr(mapped_row, "last sold")
        sale_price == GetStr(mapped_row, "last sale price")
    IN  IF last_sold # "" /\ sale_price # "" /\ last_sold \notin {"none", "n/a"}
           /\ strptime(last_sold) # None
        THEN [sale_history |-> <<[event_type |-> "SALE",
                                  date |-> strptime(last_sold),
                                  amount |-> safe_float(sale_price),
                                  last_updated |-> now]>>,
              last_sale |-> [date |-> strptime(last_sold),
                             price |-> safe_float(sale_price)]]
        ELSE EmptyDoc

PropertyDoc(row, now) ==
    LET mapped_row == MappedRow(row)
    IN  Merge([apn |-> clean_apn(Get(mapped_row, "apn")),
               address |-> [street |-> GetStr(mapped_row, "property address"),
                            city |-> GetStr(mapped_row, "property city"),
                            state |-> Prefix(Upper(Get(mapped_row, "property state")), 2),
                            zip |-> extract_best_zip(row, <<"property zip 5", "property zip">>)],
               valuation |-> [last_sale_price |->
                                 safe_float(GetStr(mapped_row, "last sale price"))],
               last_updated |-> now],
              SaleFields(mapped_row, now))

\* emails of the row: the normalized form of every email i column that validates
Emails(row) ==
    LET email == GetStr(row, "email 1")
    IN  IF email # "" /\ validate_email(email) # "" THEN <<validate_email(email)>> ELSE <<>>

\* the phone documents of the row, one per phone i column that validates
PhoneDocs(row, now) ==
    LET mapped_row == MappedRow(row)
        phone == GetStr(row, "phone 1")
        phone_number == clean_phone(phone)
        owner_id == OwnerIdOf(OwnerHashOf(row))
    IN  IF phone # "" /\ phone_number # ""
        THEN <<[phone_id |-> PhoneIdOf(phone_number),
                number |-> phone_number,
                linked_apns |-> <<clean_apn(Get(mapped_row, "apn"))>>,
                linked_owners |-> <<owner_id>>,
                type |-> "UNKNOWN",
                status |-> "UNVERIFIED",
                tags |-> <<>>,
                last_updated |-> now]>>
        ELSE <<>>

OwnerDoc(row, now) ==
    LET mapped_row == MappedRow(row)
        normalized_owner_id == OwnerHashOf(row)
        phone_docs == PhoneDocs(row, now)
    IN  [owner_id |-> OwnerIdOf(normalized_owner_id),
         normalized_owner_id |-> normalized_owner_id,
         apn |-> clean_apn(Get(mapped_row, "apn")),
         full_name |-> <<GetStr(mapped_row, "first name"), GetStr(mapped_row, "last name")>>,
         mailing_address |-> [street |-> GetStr(mapped_row, "mailing address"),
                              zip |-> extract_best_zip(row, <<"mailing zip 5", "mailing zip">>)],
         emails |-> Emails(row),
         phone_ids |-> [i \in 1..Len(phone_docs) |-> phone_docs[i].phone_id],
         tags |-> parse_array(Get(mapped_row, "tags")),
         status |-> Lower(IF "status" \in DOMAIN mapped_row THEN mapped_row["status"] ELSE "unknown"),
         last_updated |-> now]

\* events of the known_life_event_fields loop (lines 417-440)
RECURSIVE FieldEvents(_, _, _, _)
FieldEvents(fields, mapped_row, apn, now) ==
    IF fields = <<>> THEN <<>>
    ELSE LET raw_value == GetStr(mapped_row, Head(fields).field)
             rest == FieldEvents(Tail(fields), mapped_row, apn, now)
         IN  IF raw_value = "" THEN rest
             ELSE <<[apn |-> apn,
                     event_type |-> Head(fields).event_type,
                     source |-> "CSV Field",
                     source_detail |-> Head(fields).field,
                     notification_date |-> now,
                     last_updated |-> now]>> \o rest

\* events of the tag loop (lines 441-476); a "Tag Analysis" event carries no
\* source_detail key
RECURSIVE TagEvents(_, _, _)
TagEvents(tags, apn, now) ==
    IF tags = <<>> THEN <<>>
    ELSE LET tag == Head(tags)
             pattern_event ==
                 IF TagPatternEvent(tag) # ""
                 THEN <<[apn |-> apn,
                         event_type |-> TagPatternEvent(tag),
                         source |-> "Tag",
                         source_detail |-> tag,
                         notification_date |-> now,
                         last_updated |-> now]>>
                 ELSE <<>>
             condition_event ==
                 IF IsConditionTag(tag)
                 THEN <<[apn |-> apn,
                         event_type |-> "PHYSICAL_DISTRESS",
                         source |-> "Tag Analysis",
                         notification_date |-> now,
                         last_updated |-> now]>>
                 ELSE <<>>
         IN  pattern_event \o condition_event \o TagEvents(Tail(tags), apn, now)

SaleReasons(tags) == SelectSeq(tags, IsSaleReasonTag)

LifeEvents(row, now) ==
    LET mapped_row == MappedRow(row)
        apn == clean_apn(Get(mapped_row, "apn"))
        tags == parse_array(Get(mapped_row, "tags"))
    IN  FieldEvents(known_life_event_fields, mapped_row, apn, now)
        \o TagEvents(tags, apn, now)
        \o (IF SaleReasons(tags) # <<>>
            THEN <<[apn |-> apn,
                    event_type |-> "SALE_REASON",
                    source |-> "Tag Analysis",
                    details |-> SaleReasons(tags),
                    notification_date |-> now,
                    last_updated |-> now]>>
            ELSE <<>>)

\* the candidate that process_unified_row inserts for a row it cannot decompose
Candidate(id, row, reason) ==
    [id |-> id, raw_data |-> row, reason |-> reason, status |-> "pending",
     enrichment_status |-> "unset", enrichment_method |-> "unset"]

\* process_unified_row: the entities of the row, or None after routing the row
\* to the pending queue or dropping it
process_unified_row(row, db, now) ==
    LET Route(outcome) ==
            IF outcome \in PendingReasons
            THEN [db |-> [db EXCEPT !.fallback_candidates =
                                      @ \cup {Candidate(db.next_id, row, outcome)},
                                    !.next_id = @ + 1],
                  processed |-> FALSE,
                  entities |-> None]
            ELSE IF outcome = "dropped"
            THEN [db |-> db, processed |-> FALSE, entities |-> None]
            ELSE [db |-> db,
                  processed |-> TRUE,
                  entities |-> [property |-> PropertyDoc(row, now),
                                owner |-> OwnerDoc(row, now),
                                phones |-> PhoneDocs(row, now),
                                life_events |-> LifeEvents(row, now)]]
    IN  Route(RowOutcome(row))

\* --------------------------------------------------- document store (MongoDB)
Contains(arr, v) == \E i \in 1..Len(arr) : arr[i] = v

\* $addToSet with $each: every value not yet in the array is appended
RECURSIVE AddToSet(_, _)
AddToSet(arr, each) ==
    IF each = <<>> THEN arr
    ELSE AddToSet(IF Contains(arr, Head(each)) THEN arr ELSE Append(arr, Head(each)),
                  Tail(each))

Matches(doc, filter) ==
    \A k \in DOMAIN filter : k \in DOMAIN doc /\ doc[k] = filter[k]

\* index of the first document of coll that matches filter, 0 when none does
RECURSIVE FindOne(_, _, _)
FindOne(coll, filter, i) ==
    IF i > Len(coll) THEN 0
    ELSE IF Matches(coll[i], filter) THEN i
    ELSE FindOne(coll, filter, i + 1)

\* mutant of AddToSetFields: the arrays are replaced by the values of the update
SetFields(doc, add) == add

\* the $addToSet part of an update applied to a document
AddToSetFields(doc, add) ==
    [k \in DOMAIN add |-> AddToSet(IF k \in DOMAIN doc THEN doc[k] ELSE <<>>, add[k])]

\* mutant of UpdateOneUpsert: insert_one of the document, whatever the store holds
UpdateOneInsertOnly(coll, op) ==
    Append(coll,
        Merge(Merge(Merge(op.filter, op.setOnInsert), op.set),
              AddToSetFields(EmptyDoc, op.addToSet)))

\* UpdateOne(filter, {$setOnInsert, $set, $addToSet}, upsert=True) on coll
UpdateOneUpsert(coll, op) ==
    LET i == FindOne(coll, op.filter, 1)
    IN  IF i > 0
        THEN [coll EXCEPT ![i] = Merge(Merge(@, op.set), AddToSetFields(@, op.addToSet))]
        ELSE Append(coll,
                 Merge(Merge(Merge(op.filter, op.setOnInsert), op.set),
                       AddToSetFields(EmptyDoc, op.addToSet)))

\* ordered bulk_write: the operations are applied in order
RECURSIVE ApplyOps(_, _)
ApplyOps(coll, ops) ==
    IF ops = <<>> THEN coll ELSE ApplyOps(UpdateOneUpsert(coll, Head(ops)), Tail(ops))

\* ------------------------------------------------- Persistence Merge Layer
\* lines 532-536
PropertyOp(property) ==
    [filter |-> [apn |-> property.apn],
     setOnInsert |-> EmptyDoc,
     set |-> property,
     addToSet |-> EmptyDoc]

\* mutant of OwnerOp: full_name is also written by $set
OwnerOpSetsName(owner) ==
    [filter |-> [normalized_owner_id |-> owner.normalized_owner_id],
     setOnInsert |-> [normalized_owner_id |-> owner.normalized_owner_id,
                      apn |-> owner.apn,
                      full_name |-> owner.full_name,
                      mailing_address |-> owner.mailing_address],
     set |-> [status |-> owner.status, last_updated |-> owner.last_updated,
              full_name |-> owner.full_name],
     addToSet |-> IF owner.phone_ids # <<>>
                  THEN [emails |-> owner.emails, tags |-> owner.tags,
                        phone_ids |-> owner.phone_ids]
                  ELSE [emails |-> owner.emails, tags |-> owner.tags]]

\* lines 537-559
OwnerOp(owner) ==
    [filter |-> [normalized_owner_id |-> owner.normalized_owner_id],
     setOnInsert |-> [normalized_owner_id |-> owner.normalized_owner_id,
                      apn |-> owner.apn,
                      full_name |-> owner.full_name,
                      mailing_address |-> owner.mailing_address],
     set |-> [status |-> owner.status, last_updated |-> owner.last_updated],
     addToSet |-> IF owner.phone_ids # <<>>
                  THEN [emails |-> owner.emails, tags |-> owner.tags,
                        phone_ids |-> owner.phone_ids]
                  ELSE [emails |-> owner.emails, tags |-> owner.tags]]

\* lines 565-585
PhoneOp(phone) ==
    [filter |-> [number |-> phone.number],
     setOnInsert |-> [phone_id |-> phone.phone_id,
                      number |-> phone.number,
                      type |-> phone.type,
                      status |-> phone.status,
                      tags |-> phone.tags,
                      created_at |-> phone.last_updated],
     set |-> [last_updated |-> phone.last_updated],
     addToSet |-> [linked_apns |-> phone.linked_apns,
                   linked_owners |-> phone.linked_owners]]

\* lines 587-608
LifeEventOp(event, now) ==
    [filter |-> [apn |-> event.apn, event_type |-> event.event_type,
                 source_detail |-> event.source_detail],
     setOnInsert |-> [created_at |-> now],
     set |-> [event_date |-> IF "event_date" \in DOMAIN event THEN event.event_date ELSE None,
              notification_date |-> event.notification_date,
              last_updated |-> event.last_updated,
              source |-> event.source],
     addToSet |-> [related_tags |-> <<event.source_detail>>]]

PhoneOps(phones) == [i \in 1..Len(phones) |-> PhoneOp(phones[i])]

\* the life-event operations built before event["source_detail"] raises
\* KeyError, which ends the row's pass through the loop body (line 609)
RECURSIVE LifeEventOps(_, _)
LifeEventOps(events, now) ==
    IF events = <<>> THEN <<>>
    ELSE IF "source_detail" \notin DOMAIN Head(events) THEN <<>>
    ELSE <<LifeEventOp(Head(events), now)>> \o LifeEventOps(Tail(events), now)

NoOps == [prop_ops |-> <<>>, owner_ops |-> <<>>, phone_ops |-> <<>>, life_event_ops |-> <<>>]

\* the row loop of process_unified_batch (lines 520-610): the store after the
\* rows were decomposed, and the four operation lists
RECURSIVE BuildOps(_, _, _, _)
BuildOps(batch, db, now, ops) ==
    IF batch = <<>> THEN [db |-> db, ops |-> ops]
    ELSE LET Collect(r) ==
                 IF ~r.processed THEN BuildOps(Tail(batch), r.db, now, ops)
                 ELSE BuildOps(Tail(batch), r.db, now,
                          [prop_ops |-> Append(ops.prop_ops, PropertyOp(r.entities.property)),
                           owner_ops |-> Append(ops.owner_ops, OwnerOp(r.entities.owner)),
                           phone_ops |-> ops.phone_ops \o PhoneOps(r.entities.phones),
                           life_event_ops |-> ops.life_event_ops
                                              \o LifeEventOps(r.entities.life_events, now)])
         IN  Collect(process_unified_row(Head(batch).data, db, now))

\* a failure of one bulk_write call of a batch: the collection, the kind of
\* exception, and the position of the operation that fails (an ordered bulk
\* write has applied the operations before it)
NoFault == [coll |-> "none", kind |-> "none", at |-> 0]

Collections == <<"properties", "owners", "phones", "life_events">>

Faults ==
    {NoFault}
    \cup [coll : {"properties", "owners", "phones", "life_events"},
          kind : {"BulkWriteError"}, at : 1..MaxRows]
    \cup [coll : {"properties", "owners", "phones", "life_events"},
          kind : {"Exception"}, at : {1}]

OpsOf(ops, coll) ==
    CASE coll = "properties" -> ops.prop_ops
      [] coll = "owners" -> ops.owner_ops
      [] coll = "phones" -> ops.phone_ops
      [] coll = "life_events" -> ops.life_event_ops

\* db.<coll>.bulk_write(ops) under the fault
BulkWrite(coll, ops, fault, name) ==
    IF fault.coll = name THEN ApplyOps(coll, SubSeq(ops, 1, fault.at - 1))
    ELSE ApplyOps(coll, ops)

\* the collections whose bulk_write is called (lines 611-638): properties and
\* owners share the outer try, phones and life_events each catch their own
\* BulkWriteError
Submitted(ops, fault) ==
    LET sub_p == ops.prop_ops # <<>>
        abort_p == sub_p /\ fault.coll = "properties"
        sub_o == ~abort_p /\ ops.owner_ops # <<>>
        abort_o == abort_p \/ (sub_o /\ fault.coll = "owners")
        sub_ph == ~abort_o /\ ops.phone_ops # <<>>
        abort_ph == abort_o \/ (sub_ph /\ fault.coll = "phones" /\ fault.kind = "Exception")
        sub_le == ~abort_ph /\ ops.life_event_ops # <<>>
    IN  {c \in {"properties"} : sub_p} \cup {c \in {"owners"} : sub_o}
        \cup {c \in {"phones"} : sub_ph} \cup {c \in {"life_events"} : sub_le}

\* process_unified_batch: the store after the batch, whether the call raised,
\* whether results carries "errors", and what was handed to the store
process_unified_batch(batch, db, now, fault) ==
    LET Execute(b, sub) ==
            LET Write(coll, name) ==
                    IF name \in sub THEN BulkWrite(coll, OpsOf(b.ops, name), fault, name)
                    ELSE coll
            IN  [db |-> [b.db EXCEPT !.properties = Write(@, "properties"),
                                     !.owners = Write(@, "owners"),
                                     !.phones = Write(@, "phones"),
                                     !.life_events = Write(@, "life_events")],
                 raised |-> fault.coll \in sub /\ fault.kind = "Exception",
                 errors |-> fault.coll \in sub /\ fault.kind = "BulkWriteError"
                            /\ fault.coll \in {"properties", "owners"},
                 ops |-> b.ops,
                 submitted |-> sub,
                 failed |-> IF fault.coll \in sub THEN {fault.coll} ELSE {}]
        Built(b) == Execute(b, Submitted(b.ops, fault))
    IN  Built(BuildOps(batch, db, now, NoOps))

\* the fault can happen in this batch: its bulk_write is called and has the
\* operation that fails
FaultApplies(batch, db, now, fault) ==
    \/ fault = NoFault
    \/ LET Hits(ops) ==
               /\ fault.coll \in Submitted(ops, fault)
               /\ fault.at <= Len(OpsOf(ops, fault.coll))
       IN  Hits(BuildOps(batch, db, now, NoOps).ops)

\* ------------------------------------------------------------ row universe
Columns ==
    {"apn", "first name", "last name", "property address", "property city",
     "property state", "property zip", "mailing address", "mailing zip",
     "status", "tags", "email 1", "phone 1", "tax delinquent year",
     "last sold", "last sale price", "foreclosure date"}

Zip98001 == <<"9", "8", "0", "0", "1">>

BaseRow ==
    [k \in Columns |->
        CASE k = "apn" -> <<"1", "2">>
          [] k = "first name" -> "Jane"
          [] k = "last name" -> "Doe"
          [] k = "property address" -> "1 MAIN ST"
          [] k = "property city" -> "Seattle"
          [] k = "property state" -> <<"W", "A">>
          [] k = "property zip" -> Zip98001
          [] k = "mailing address" -> "9 Oak Ave"
          [] k = "mailing zip" -> Zip98001
          [] k = "status" -> "Active"
          [] k = "tags" -> <<"vacant">>
          [] k = "email 1" -> "a@x.com"
          [] k = "phone 1" -> "206-555-0100"
          [] k = "tax delinquent year" -> "2019"
          [] k = "last sold" -> "2020-01-01 00:00:00"
          [] k = "last sale price" -> "100000"
          [] k = "foreclosure date" -> ""]

\* the same owner written differently, with another parcel, a ZIP+4, and other
\* accumulated values
SecondRow ==
    [BaseRow EXCEPT !["apn"] = <<"7", "-", "7">>,
                    !["first name"] = "JANE",
                    !["property address"] = "5 ELM ST",
                    !["property state"] = <<"w", "a">>,
                    !["property zip"] = Zip98001 \o <<"-", "1", "2", "3">>,
                    !["status"] = "Sold",
                    !["tags"] = <<"probate", "", "high equity">>,
                    !["email 1"] = "B@x.com",
                    !["phone 1"] = "(206) 555-0100",
                    !["tax delinquent year"] = "",
                    !["last sold"] = "n/a",
                    !["foreclosure date"] = "2021-05-01"]

\* the parcel of BaseRow sold again, in another condition
ResoldRow ==
    [BaseRow EXCEPT !["tags"] = <<"poor condition", "vacant">>,
                    !["last sold"] = "2022-02-02 00:00:00",
                    !["last sale price"] = "200000"]

BlankApnRow == [BaseRow EXCEPT !["apn"] = <<>>, !["email 1"] = "not an email"]

ValidRows == {BaseRow, SecondRow, ResoldRow}

Rows ==
    ValidRows
    \cup {BlankApnRow,
          [BlankApnRow EXCEPT !["property state"] = <<"C", "A">>],
          [BlankApnRow EXCEPT !["mailing zip"] = <<"1", "2", "3">>],
          [BlankApnRow EXCEPT !["property city"] = ""],
          [BaseRow EXCEPT !["property state"] = <<"C", "A">>]}

\* -------------------------------------------------------------------- state
VARIABLES
    db,        \* the document store: one sequence or set of documents per collection
    up,        \* the running process_unified_upload: its locals and position, the
               \* rows it has read, and whether an exception left the row loop
    runs,      \* ingestion runs started
    rows_read, \* rows read over all runs
    clock,     \* datetime.now()
    faults,    \* bulk_write failures so far
    en,        \* the running enrich_missing_apns: its locals and position
    enrich_runs, \* cascade runs started
    hist,      \* what the last process_unified_batch call of the upload did
    call,      \* the last call of one of the pure helpers: its name, argument
               \* and result
    writers    \* the ingestion runs whose bulk writes interleave: the operations
               \* each has still to send, and the upsert the store is executing

vars == <<db, up, runs, rows_read, clock, faults, en, enrich_runs, hist, call, writers>>

\* len(bwe.details): the keys of pymongo's bulk result document
BULK_DETAILS_KEYS == 8

NoBatch == [called |-> FALSE, batch |-> <<>>, fault |-> NoFault, ops |-> NoOps,
            nonempty |-> {}, submitted |-> {}, failed |-> {}, raised |-> FALSE]

BatchRecord(batch, r, fault) ==
    [called |-> TRUE, batch |-> batch, fault |-> fault, ops |-> r.ops,
     nonempty |-> {c \in {"properties", "owners", "phones", "life_events"} :
                      OpsOf(r.ops, c) # <<>>},
     submitted |-> r.submitted, failed |-> r.failed, raised |-> r.raised]

NoCur == [status |-> "failed", apn |-> None, method |-> "none", confidence |-> -1]

NoEnrich ==
    [pc |-> "idle", candidates |-> <<>>, idx |-> 0, results |-> <<>>,
     metrics |-> [processed |-> 0, local_db |-> 0, google |-> 0, apify |-> 0,
                  timeout |-> 0, captcha |-> 0],
     cur |-> NoCur, raw_data |-> <<>>, log |-> <<>>, apify_token |-> FALSE]

NoCall == [fn |-> "none", arg |-> None, res |-> None]

Writers == 1..MaxWriters

\* a background task that has not yet built its operations
NoWriter == [started |-> FALSE, ops |-> <<>>, phase |-> "idle", match |-> 0]

Init ==
    /\ db = [properties |-> <<>>, owners |-> <<>>, phones |-> <<>>, life_events |-> <<>>,
             fallback_candidates |-> {}, next_id |-> 1,
             upload_sessions |-> <<>>]
    /\ up = [pc |-> "idle", session_id |-> 0, batch |-> <<>>, processed |-> 0,
             errors |-> 0, row_num |-> 0, stream |-> <<>>, first_id |-> 1,
             escaped |-> FALSE]
    /\ runs = 0
    /\ rows_read = 0
    /\ clock = 1
    /\ faults = 0
    /\ en = NoEnrich
    /\ enrich_runs = 0
    /\ hist = NoBatch
    /\ call = NoCall
    /\ writers = [w \in Writers |-> NoWriter]

\* -------------------------------------------------------- Batch Coordinator
\* process_unified_upload, lines 708-726: the session is created
StartUpload ==
    /\ up.pc \in {"idle", "done"}
    /\ en.pc \in {"idle", "finished"}
    /\ runs < MaxRuns
    /\ runs' = runs + 1
    /\ up' = [pc |-> "reading", session_id |-> runs + 1, batch |-> <<>>, processed |-> 0,
              errors |-> 0, row_num |-> 0, stream |-> <<>>, first_id |-> db.next_id,
              escaped |-> FALSE]
    /\ db' = [db EXCEPT !.upload_sessions =
                 Append(@, [upload_id |-> runs + 1, status |-> "processing",
                            processed_count |-> 0, error_count |-> 0,
                            error_message |-> "", end_time |-> 0, finalized |-> 0])]
    /\ hist' = NoBatch
    /\ UNCHANGED <<rows_read, clock, faults, en, enrich_runs, call, writers>>

\* update_one({"upload_id": sid}, {"$inc": ...}) of lines 741-747
IncSession(sessions, sid, processed_count, error_count) ==
    [sessions EXCEPT ![sid].processed_count = @ + processed_count,
                     ![sid].error_count = @ + error_count]

\* mutant of FinalizeSession: the final update always reports "completed"
FinalizeSessionCompleted(sessions, sid, status, message, processed, errors, now) ==
    [sessions EXCEPT ![sid].status = "completed",
                     ![sid].error_message = message,
                     ![sid].end_time = now,
                     ![sid].processed_count = processed,
                     ![sid].error_count = errors,
                     ![sid].finalized = @ + 1]

\* the final update_one of lines 759-768 and 771-781
FinalizeSession(sessions, sid, status, message, processed, errors, now) ==
    [sessions EXCEPT ![sid].status = status,
                     ![sid].error_message = message,
                     ![sid].end_time = now,
                     ![sid].processed_count = processed,
                     ![sid].error_count = errors,
                     ![sid].finalized = @ + 1]

\* one pass of the row loop, lines 728-755
ReadRow(row, fault) ==
    /\ up.pc = "reading"
    /\ rows_read < MaxRows
    /\ rows_read' = rows_read + 1
    /\ fault # NoFault => faults < MaxFaults
    /\ faults' = IF fault # NoFault THEN faults + 1 ELSE faults
    /\ LET Call(batch, r) ==
               /\ hist' = BatchRecord(batch, r, fault)
               /\ IF r.raised
                  THEN /\ db' = r.db
                       /\ up' = [up EXCEPT !.batch = batch, !.row_num = @ + 1,
                                           !.stream = Append(@, row),
                                           !.errors = @ + 1]
                  ELSE /\ db' = [r.db EXCEPT !.upload_sessions =
                                    IncSession(@, up.session_id, Len(batch),
                                        IF r.errors THEN BULK_DETAILS_KEYS ELSE 0)]
                       /\ up' = [up EXCEPT !.batch = <<>>, !.row_num = @ + 1,
                                           !.stream = Append(@, row),
                                           !.processed = @ + Len(batch)]
           Body(batch) ==
               IF Len(batch) >= batch_size
               THEN /\ FaultApplies(batch, db, clock, fault)
                    /\ Call(batch, process_unified_batch(batch, db, clock, fault))
                    /\ clock' = clock + 1
               ELSE /\ fault = NoFault
                    /\ up' = [up EXCEPT !.batch = batch, !.row_num = @ + 1,
                                        !.stream = Append(@, row)]
                    /\ UNCHANGED <<db, clock, hist>>
       IN  Body(Append(up.batch, [row_number |-> up.row_num + 1, data |-> row]))
    /\ UNCHANGED <<runs, en, enrich_runs, call, writers>>

\* the end of the stream, lines 756-768, and the handler of lines 769-781 when
\* the last process_unified_batch call raises
EndOfStream(fault) ==
    /\ up.pc = "reading"
    /\ fault # NoFault => faults < MaxFaults
    /\ faults' = IF fault # NoFault THEN faults + 1 ELSE faults
    /\ LET Call(r) ==
               /\ hist' = BatchRecord(up.batch, r, fault)
               /\ IF r.raised
                  THEN /\ db' = [r.db EXCEPT !.upload_sessions =
                                    FinalizeSession(@, up.session_id, "failed",
                                        "Exception", up.processed, up.errors, clock)]
                       /\ up' = [up EXCEPT !.pc = "done", !.escaped = TRUE]
                  ELSE /\ db' = [r.db EXCEPT !.upload_sessions =
                                    FinalizeSession(@, up.session_id, "completed", "",
                                        up.processed + Len(up.batch), up.errors, clock)]
                       /\ up' = [up EXCEPT !.pc = "done",
                                           !.processed = @ + Len(up.batch)]
       IN  IF up.batch # <<>>
           THEN /\ FaultApplies(up.batch, db, clock, fault)
                /\ Call(process_unified_batch(up.batch, db, clock, fault))
                /\ clock' = clock + 1
           ELSE /\ fault = NoFault
                /\ db' = [db EXCEPT !.upload_sessions =
                             FinalizeSession(@, up.session_id, "completed", "",
                                 up.processed, up.errors, clock)]
                /\ up' = [up EXCEPT !.pc = "done"]
                /\ UNCHANGED <<clock, hist>>
    /\ UNCHANGED <<runs, rows_read, en, enrich_runs, call, writers>>

\* an exception that leaves the row loop (the reader fails to decode the next
\* line, or the handler of lines 749-755 raises on a row with a None key):
\* lines 769-781
StreamRaises ==
    /\ up.pc = "reading"
    /\ db' = [db EXCEPT !.upload_sessions =
                 FinalizeSession(@, up.session_id, "failed", "Exception",
                     up.processed, up.errors, clock)]
    /\ up' = [up EXCEPT !.pc = "done", !.escaped = TRUE]
    /\ UNCHANGED <<runs, rows_read, clock, faults, hist, en, enrich_runs, call, writers>>

\* ---------------------------------------------------------- Fallback Cascade
\* the oracle values fuzz.ratio may return for a pair of strings
SimValues == {0, 99, 100}

\* fuzz.ratio(name, ""): a property document carries no "owner", so the owner's
\* name is compared with the empty string
EmptyNameSim == 0

\* an identifier an external provider may return (10 digits)
FoundApns == {Zfill(<<"7", "7">>, APN_WIDTH)}

\* find_best_db_match: the best property and ten times its score
\* (addr_similarity * 0.8 + name_similarity * 0.2), given the oracle's values
RECURSIVE BestMatch(_, _, _, _, _)
BestMatch(props, addr_sims, name_sim, i, best) ==
    IF i > Len(props) THEN best
    ELSE LET total_score == addr_sims[i] * 8 + name_sim * 2
         IN  BestMatch(props, addr_sims, name_sim, i + 1,
                 IF total_score > best.score
                 THEN [match |-> i, score |-> total_score]
                 ELSE best)

find_best_db_match(props, addr_sims, name_sim) ==
    BestMatch(props, addr_sims, name_sim, 1, [match |-> 0, score |-> 0])

\* mutant of Accepts: the score has to exceed the threshold
AcceptsAbove(confidence) == confidence > CONFIDENCE_THRESHOLD * 10

\* the confidence gate of line 966, on ten times the score
Accepts(confidence) == confidence >= CONFIDENCE_THRESHOLD * 10

\* mutant of move_out_of_fallback: the candidate is deleted whatever the
\* decomposition of the repaired row returned
move_out_unconditionally(apn, raw_data, db0, candidate_id, now, fault) ==
    LET Write(repaired, processed, r) ==
            IF r.raised
            THEN [db |-> r.db, raised |-> TRUE, deleted |-> FALSE,
                  redecomposed |-> processed.processed]
            ELSE [db |-> [r.db EXCEPT !.fallback_candidates =
                                  {c \in @ : c.id # candidate_id}],
                  raised |-> FALSE, deleted |-> TRUE, redecomposed |-> processed.processed]
        Decompose(repaired, processed) ==
            Write(repaired, processed,
                  process_unified_batch(<<[row_number |-> -1, data |-> repaired]>>,
                                        processed.db, now, fault))
        Repair(repaired) == Decompose(repaired, process_unified_row(repaired, db0, now))
    IN  Repair([raw_data EXCEPT !["apn"] = apn])

\* move_out_of_fallback (lines 234-239)
move_out_of_fallback(apn, raw_data, db0, candidate_id, now, fault) ==
    LET Write(repaired, processed, r) ==
            IF r.raised
            THEN [db |-> r.db, raised |-> TRUE, deleted |-> FALSE, redecomposed |-> TRUE]
            ELSE [db |-> [r.db EXCEPT !.fallback_candidates =
                                  {c \in @ : c.id # candidate_id}],
                  raised |-> FALSE, deleted |-> TRUE, redecomposed |-> TRUE]
        Decompose(repaired, processed) ==
            IF processed.processed
            THEN Write(repaired, processed,
                       process_unified_batch(<<[row_number |-> -1, data |-> repaired]>>,
                                             processed.db, now, fault))
            ELSE [db |-> processed.db, raised |-> FALSE, deleted |-> FALSE,
                  redecomposed |-> FALSE]
        Repair(repaired) == Decompose(repaired, process_unified_row(repaired, db0, now))
    IN  Repair([raw_data EXCEPT !["apn"] = apn])

\* the fault can happen in the batch that move_out_of_fallback writes
MoveFaultApplies(apn, raw_data, db0, now, fault) ==
    \/ fault = NoFault
    \/ LET Decompose(repaired, processed) ==
               /\ processed.processed
               /\ FaultApplies(<<[row_number |-> -1, data |-> repaired]>>,
                               processed.db, now, fault)
           Repair(repaired) == Decompose(repaired, process_unified_row(repaired, db0, now))
       IN  Repair([raw_data EXCEPT !["apn"] = apn])

success_result(id, apn, confidence, method) ==
    [id |-> id, status |-> "enriched", apn |-> apn, confidence |-> confidence,
     method |-> method, error |-> ""]

\* the candidates of the query of lines 913-919, in insertion order
MatchFilter(c, skip_already_enriched) ==
    /\ c.reason \in {"missing_apn", "apn_not_numeric_or_too_short"}
    /\ skip_already_enriched => c.enrichment_status \in {"unset", "failed"}

RECURSIVE SortById(_)
SortById(cs) ==
    IF cs = {} THEN <<>>
    ELSE LET first == CHOOSE c \in cs : \A d \in cs : c.id <= d.id
         IN  <<first>> \o SortById(cs \ {first})

FindCandidates(cands, limit, skip_already_enriched) ==
    Prefix(SortById({c \in cands : MatchFilter(c, skip_already_enriched)}), limit)

\* the update_one of the finally clause (lines 1030-1043)
UpdateCandidate(cands, id, cur) ==
    {IF c.id = id
     THEN [c EXCEPT !.enrichment_status = cur.status, !.enrichment_method = cur.method]
     ELSE c : c \in cands}

\* the exceptions a cascade method raises, as retry_wrapper classifies their
\* text (lines 928-931)
ErrorKinds == {"timeout", "captcha", "other"}

Raises(error) == [kind |-> "raise", apn |-> None, error |-> error]

Returns(apn) == [kind |-> "return", apn |-> apn, error |-> ""]

\* what one invocation of a cascade method does: it raises, or returns None or
\* an identifier
ExternalOutcomes ==
    {Raises(error) : error \in ErrorKinds} \cup {Returns(None)}
    \cup {Returns(a) : a \in FoundApns}

\* mutant of Attempt: the method is invoked again after it returned None, too
RECURSIVE AttemptAgainOnNone(_, _)
AttemptAgainOnNone(tries, attempt) ==
    IF tries[attempt].kind = "return" /\ tries[attempt].apn # None
    THEN [outcome |-> tries[attempt], attempts |-> attempt]
    ELSE IF attempt = MAX_RETRIES
    THEN [outcome |-> tries[attempt], attempts |-> attempt]
    ELSE AttemptAgainOnNone(tries, attempt + 1)

\* the loop of retry_wrapper (lines 923-934) from the given attempt on;
\* tries[k]: what the k-th invocation of func does
RECURSIVE Attempt(_, _)
Attempt(tries, attempt) ==
    IF tries[attempt].kind = "return"
    THEN [outcome |-> tries[attempt], attempts |-> attempt]
    ELSE IF attempt = MAX_RETRIES
    THEN [outcome |-> tries[attempt], attempts |-> attempt]
    ELSE Attempt(tries, attempt + 1)

\* retry_wrapper (lines 922-934): the outcome, the invocations made and the
\* seconds slept between them
retry_wrapper(tries) ==
    LET Made(r) ==
            [outcome |-> r.outcome,
             attempts |-> r.attempts,
             made |-> [k \in 1..r.attempts |-> tries[k].kind],
             errors |-> [k \in 1..r.attempts |-> tries[k].error],
             sleeps |-> [k \in 1..(r.attempts - 1) |-> RETRY_DELAY * k]]
    IN  Made(Attempt(tries, 1))

\* no invocation of a method yet
NoTries == [made |-> <<>>, errors |-> <<>>, sleeps |-> <<>>]

TriesOf(w) == [made |-> w.made, errors |-> w.errors, sleeps |-> w.sleeps]

\* errors_breakdown after the attempts of one retry_wrapper call (lines 928-931)
CountErrors(metrics, w) ==
    [metrics EXCEPT
        !.timeout = @ + Cardinality({k \in 1..w.attempts : w.errors[k] = "timeout"}),
        !.captcha = @ + Cardinality({k \in 1..w.attempts : w.errors[k] = "captcha"})]

AllRaise == [k \in 1..MAX_RETRIES |-> Raises("timeout")]

AllReturn == [k \in 1..MAX_RETRIES |-> Returns(None)]

\* the behaviours of a method over the attempts of one retry_wrapper call: it
\* raises every time; it returns at once, nothing or an identifier; it raises
\* until the last attempt and then returns nothing; it raises once and then
\* returns an identifier
TrySequences ==
    {AllRaise, AllReturn,
     [k \in 1..MAX_RETRIES |->
         IF k < MAX_RETRIES THEN Raises("captcha") ELSE Returns(None)]}
    \cup {[k \in 1..MAX_RETRIES |-> Returns(a)] : a \in FoundApns}
    \cup {[k \in 1..MAX_RETRIES |->
              IF k < 2 THEN Raises("other") ELSE Returns(a)] : a \in FoundApns}

\* the log of the cascade's work on one candidate
LogEntry(id) ==
    [id |-> id, confidence |-> -1, local_accepted |-> FALSE, google_calls |-> 0,
     apify_calls |-> 0, resolved |-> None, redecomposed |-> FALSE, deleted |-> FALSE,
     local_tries |-> NoTries, google_tries |-> NoTries, apify_tries |-> NoTries]

\* the finally clause, and the loop moving to the next candidate
FinishCandidate(e, d, cur) ==
    [db |-> [d EXCEPT !.fallback_candidates =
                UpdateCandidate(@, e.candidates[e.idx].id, cur)],
     en |-> [e EXCEPT !.cur = cur,
                      !.idx = @ + 1,
                      !.pc = IF e.idx + 1 > Len(e.candidates) THEN "finished" ELSE "local"]]

\* lines 894-920; apify_token: whether APIFY_API_TOKEN is set
EnrichStart(limit, skip_already_enriched, apify_token) ==
    /\ en.pc \in {"idle", "finished"}
    /\ up.pc \in {"idle", "done"}
    /\ enrich_runs < MaxEnrichRuns
    /\ enrich_runs' = enrich_runs + 1
    /\ LET candidates == FindCandidates(db.fallback_candidates, limit, skip_already_enriched)
       IN  en' = [NoEnrich EXCEPT !.candidates = candidates,
                                  !.idx = 1,
                                  !.apify_token = apify_token,
                                  !.pc = IF candidates = <<>> THEN "finished" ELSE "local"]
    /\ UNCHANGED <<db, up, runs, rows_read, clock, faults, hist, call, writers>>

AddressMissing(raw_data) ==
    \/ GetStr(raw_data, "property address") = ""
    \/ GetStr(raw_data, "property city") = ""
    \/ Strip(Get(raw_data, "property state")) = <<>>

\* what a success of one method does (lines 966-973, 981-987, 995-1001):
\* the result is recorded, then move_out_of_fallback runs; when it raises, the
\* enclosing except clause lets the cascade go on with the next method
Succeed(e, d, apn, confidence, method, now, fault, next_pc) ==
    LET Record(id, cur, mv) ==
            LET Logged(e1) ==
                    IF mv.raised
                    THEN [db |-> mv.db, en |-> [e1 EXCEPT !.cur = cur, !.pc = next_pc]]
                    ELSE FinishCandidate(e1, mv.db, cur)
            IN  Logged([e EXCEPT !.results = Append(@, success_result(id, apn, confidence, method)),
                                 !.metrics[method] = @ + 1,
                                 !.raw_data = [@ EXCEPT !["apn"] = apn],
                                 !.log[e.idx].resolved = apn,
                                 !.log[e.idx].redecomposed = mv.redecomposed,
                                 !.log[e.idx].deleted = mv.deleted])
    IN  Record(e.candidates[e.idx].id,
               [status |-> CASE method = "local_db" -> "enriched_via_local_db"
                             [] method = "google" -> "enriched_via_google"
                             [] method = "apify" -> "enriched_via_apify",
                apn |-> apn, method |-> method, confidence |-> confidence],
               move_out_of_fallback(apn, e.raw_data, d, e.candidates[e.idx].id, now, fault))

\* "All steps failed" (lines 1005-1013)
AllFailed(e, d, cur) ==
    FinishCandidate(
        [e EXCEPT !.results = Append(@, [id |-> e.candidates[e.idx].id, status |-> "failed",
                                         apn |-> None, confidence |-> -1,
                                         method |-> "none", error |-> ""])],
        d, cur)

\* the step after the Google step: Apify when APIFY_TOKEN is set
AfterGoogle(apify_token) == IF apify_token THEN "apify" ELSE "all_failed"

\* the start of a candidate and the local step, lines 937-975; local_raises:
\* every attempt of retry_wrapper(find_best_db_match) raised
EnrichLocal(local_raises, addr_sims, name_sim, fault) ==
    /\ en.pc = "local"
    /\ fault # NoFault => faults < MaxFaults
    /\ faults' = IF fault # NoFault THEN faults + 1 ELSE faults
    /\ addr_sims \in [1..Len(db.properties) -> SimValues]
    /\ LET Commit(next) == db' = next.db /\ en' = next.en
           Step(candidate, e0, m) ==
               LET Match(apn, e1) ==
                       IF Accepts(m.score)
                       THEN /\ MoveFaultApplies(apn, candidate.raw_data, db, clock, fault)
                            /\ Commit(Succeed(e1, db, apn, m.score, "local_db", clock,
                                              fault, "google"))
                       ELSE /\ fault = NoFault
                            /\ Commit([db |-> db,
                                       en |-> [e1 EXCEPT !.pc = "google",
                                                         !.cur.confidence = m.score]])
               IN  IF AddressMissing(candidate.raw_data)
                   THEN /\ fault = NoFault
                        /\ ~local_raises
                        /\ \A i \in 1..Len(db.properties) : addr_sims[i] = 0
                        /\ Commit(FinishCandidate(
                               [e0 EXCEPT !.results =
                                   Append(@, [id |-> candidate.id, status |-> "error",
                                              apn |-> None, confidence |-> -1,
                                              method |-> "none",
                                              error |-> "Missing address fields"])],
                               db, NoCur))
                   ELSE IF local_raises
                   THEN /\ fault = NoFault
                        /\ \A i \in 1..Len(db.properties) : addr_sims[i] = 0
                        /\ Commit([db |-> db,
                                   en |-> [e0 EXCEPT !.pc = "google",
                                              !.metrics = CountErrors(@, retry_wrapper(AllRaise)),
                                              !.log[en.idx].local_tries =
                                                  TriesOf(retry_wrapper(AllRaise))]])
                   ELSE Match(IF m.match > 0 THEN db.properties[m.match].apn ELSE None,
                              [e0 EXCEPT !.log[en.idx].confidence = m.score,
                                         !.log[en.idx].local_accepted = Accepts(m.score),
                                         !.log[en.idx].local_tries =
                                             TriesOf(retry_wrapper(AllReturn))])
       IN  Step(en.candidates[en.idx],
                [en EXCEPT !.metrics.processed = @ + 1,
                           !.cur = NoCur,
                           !.raw_data = en.candidates[en.idx].raw_data,
                           !.log = Append(@, LogEntry(en.candidates[en.idx].id))],
                find_best_db_match(db.properties, addr_sims, name_sim))
    /\ clock' = clock + 1
    /\ UNCHANGED <<up, runs, rows_read, enrich_runs, hist, call, writers>>

\* the Google step, lines 977-989, and the Apify step, lines 991-1003, with the
\* fall-through of lines 1005-1013; tries[k]: what the k-th invocation of
\* get_parcel_number or apify_general_scrape does
ExternalStep(method, tries, apify_token, fault) ==
    /\ en.pc = method
    /\ fault # NoFault => faults < MaxFaults
    /\ faults' = IF fault # NoFault THEN faults + 1 ELSE faults
    /\ \E w \in {retry_wrapper(tries)} :
          /\ IF w.outcome.kind = "return" /\ w.outcome.apn # None
             THEN MoveFaultApplies(w.outcome.apn, en.raw_data, db, clock, fault)
             ELSE fault = NoFault
          /\ LET Commit(done) == db' = done.db /\ en' = done.en
                 Fall(next) ==
                     Commit(IF next.en.pc = "all_failed"
                            THEN AllFailed(next.en, next.db, next.en.cur)
                            ELSE next)
                 Step(e0, next_pc) ==
                     Fall(IF w.outcome.kind = "return" /\ w.outcome.apn # None
                          THEN Succeed(e0, db, w.outcome.apn, -1, method, clock, fault, next_pc)
                          ELSE [db |-> db,
                                en |-> [e0 EXCEPT !.cur = IF w.outcome.kind = "return"
                                                          THEN [en.cur EXCEPT !.apn = w.outcome.apn]
                                                          ELSE en.cur,
                                                  !.pc = next_pc]])
             IN  Step(IF method = "google"
                      THEN [en EXCEPT !.metrics = CountErrors(@, w),
                                      !.log[en.idx].google_calls = @ + w.attempts,
                                      !.log[en.idx].google_tries = TriesOf(w)]
                      ELSE [en EXCEPT !.metrics = CountErrors(@, w),
                                      !.log[en.idx].apify_calls = @ + w.attempts,
                                      !.log[en.idx].apify_tries = TriesOf(w)],
                      IF method = "google" THEN AfterGoogle(apify_token) ELSE "all_failed")
    /\ clock' = clock + 1
    /\ UNCHANGED <<up, runs, rows_read, enrich_runs, hist, call, writers>>

EnrichGoogle(tries, apify_token, fault) ==
    ExternalStep("google", tries, apify_token, fault)

EnrichApify(tries, fault) ==
    ExternalStep("apify", tries, TRUE, fault)

\* ------------------------------------------------------------ pure helpers
Letters ==
    {"a", "b", "c", "d", "e", "f", "g", "h", "i", "j", "k", "l", "m", "n", "o",
     "p", "q", "r", "s", "t", "u", "v", "w", "x", "y", "z"}

\* str.lower() on one character, for the capitals of the name universe
LowerChar(c) ==
    CASE c = "A" -> "a"
      [] c = "O" -> "o"
      [] c = "N" -> "n"
      [] OTHER -> c

\* .replace('_', ' ').replace('.', ' ').replace('-', ' ')
SeparatorToSpace(c) == IF c \in {"_", ".", "-"} THEN " " ELSE c

\* re.sub(r'\s+', ' ', s)
RECURSIVE CollapseSpaces(_)
CollapseSpaces(s) ==
    IF Len(s) < 2 THEN s
    ELSE IF IsSpace(s[1]) /\ IsSpace(s[2]) THEN CollapseSpaces(Tail(s))
    ELSE <<s[1]>> \o CollapseSpaces(Tail(s))

\* re.sub(r'([a-zA-Z])(\d+)', r'\1 \2', s)
RECURSIVE SplitLetterDigit(_)
SplitLetterDigit(s) ==
    IF Len(s) < 2 THEN s
    ELSE IF s[1] \in Letters /\ IsDigit(s[2])
    THEN <<s[1], " ">> \o SplitLetterDigit(Tail(s))
    ELSE <<s[1]>> \o SplitLetterDigit(Tail(s))

\* str.replace(old, new): every occurrence, from the left, without overlap
RECURSIVE Replace(_, _, _)
Replace(s, old, new) ==
    IF Len(s) < Len(old) THEN s
    ELSE IF SubSeq(s, 1, Len(old)) = old
    THEN new \o Replace(SubSeq(s, Len(old) + 1, Len(s)), old, new)
    ELSE <<s[1]>> \o Replace(Tail(s), old, new)

Owner == <<"o", "w", "n", "e", "r">>

FirstName == <<"f", "i", "r", "s", "t", " ", "n", "a", "m", "e">>

LastName == <<"l", "a", "s", "t", " ", "n", "a", "m", "e">>

AddressStreet ==
    <<"a", "d", "d", "r", "e", "s", "s", " ", "s", "t", "r", "e", "e", "t">>

PropertyAddress ==
    <<"p", "r", "o", "p", "e", "r", "t", "y", " ", "a", "d", "d", "r", "e", "s", "s">>

\* normalize_column_name, on a name given as its sequence of characters
normalize_column_name(col) ==
    LET Rewrite(normalized) ==
            Replace(Replace(Replace(normalized, AddressStreet, PropertyAddress),
                            Owner \o <<" ">> \o FirstName, FirstName),
                    Owner \o <<" ">> \o LastName, LastName)
        lowered == [i \in 1..Len(Strip(col)) |-> SeparatorToSpace(LowerChar(Strip(col)[i]))]
    IN  Rewrite(SplitLetterDigit(CollapseSpaces(lowered)))

\* the pieces that the column names of the universe are put together from
NameParts ==
    {Owner \o <<" ">>, FirstName, <<"_">>, <<" ">>, <<"a">>, <<"1">>, <<"A">>,
     <<"O", "w", "N", "e", "r", ".">>}

\* the strings made of at most n pieces
RECURSIVE Strings(_, _)
Strings(parts, n) ==
    IF n = 0 THEN {<<>>}
    ELSE Strings(parts, n - 1)
         \cup {s \o t : s \in Strings(parts, n - 1), t \in parts}

\* a call of normalize_column_name
NormalizeCall(col) ==
    /\ call' = [fn |-> "normalize_column_name", arg |-> col,
                res |-> normalize_column_name(col)]
    /\ UNCHANGED <<db, up, runs, rows_read, clock, faults, en, enrich_runs, hist, writers>>

\* the pieces of the parcel numbers handed to clean_apn
ApnParts ==
    {<<"1", "2", "3", "4", "5", "6", "7", "8", "9", "0">>, <<"1">>, <<"-">>, <<" ">>, <<"a">>}

\* a call of clean_apn
CleanApnCall(raw_apn) ==
    /\ call' = [fn |-> "clean_apn", arg |-> raw_apn, res |-> clean_apn(raw_apn)]
    /\ UNCHANGED <<db, up, runs, rows_read, clock, faults, en, enrich_runs, hist, writers>>

\* the pieces of the zip values handed to extract_best_zip
ZipParts ==
    {<<"9", "8", "0", "0", "1">>, <<"1", "2", "3", "4">>, <<"-", "1", "2", "3", "4">>,
     <<"-">>, <<" ">>, <<"9">>}

\* a call of extract_best_zip on a row with one zip column
ExtractZipCall(zip_val) ==
    /\ call' = [fn |-> "extract_best_zip", arg |-> zip_val,
                res |-> extract_best_zip([zip |-> zip_val], <<"zip 5", "zip">>)]
    /\ UNCHANGED <<db, up, runs, rows_read, clock, faults, en, enrich_runs, hist, writers>>

PureNext ==
    \/ \E col \in Strings(NameParts, MaxParts) : NormalizeCall(col)
    \/ \E raw_apn \in Strings(ApnParts, MaxParts) : CleanApnCall(raw_apn)
    \/ \E zip_val \in Strings(ZipParts, MaxParts) : ExtractZipCall(zip_val)

PureSpec == Init /\ [][PureNext]_vars

\* ------------------------------------------------------ concurrent uploads
\* upload_unified_csv hands process_unified_upload to a background task (lines
\* 691-696); the function is synchronous, so two uploads run in two threads and
\* their upserts interleave at the store.

\* the unique indexes of startup_db_client (lines 1161-1191): properties.apn and
\* phones.number; owners and life_events have none
HasUniqueIndex(name) == name \in {"properties", "phones"}

\* the update of the document an upsert matched
UpdateMatched(coll, i, op) ==
    [coll EXCEPT ![i] = Merge(Merge(@, op.set), AddToSetFields(@, op.addToSet))]

\* the insert of an upsert that matched nothing
InsertUpserted(coll, op) ==
    Append(coll,
        Merge(Merge(Merge(op.filter, op.setOnInsert), op.set),
              AddToSetFields(EmptyDoc, op.addToSet)))

Tagged(name, ops) == [k \in 1..Len(ops) |-> [coll |-> name, op |-> ops[k]]]

\* the four bulk writes of process_unified_batch, in the order of lines 611-634
OpsInOrder(ops) ==
    Tagged("properties", ops.prop_ops) \o Tagged("owners", ops.owner_ops)
    \o Tagged("phones", ops.phone_ops) \o Tagged("life_events", ops.life_event_ops)

\* a background task decomposes its one-row batch (lines 520-610)
BuildBatch(w, row) ==
    /\ ~writers[w].started
    /\ writers' = [writers EXCEPT ![w] =
           [started |-> TRUE,
            ops |-> OpsInOrder(BuildOps(<<[data |-> row]>>, db, clock, NoOps).ops),
            phase |-> "idle", match |-> 0]]
    /\ UNCHANGED <<db, up, runs, rows_read, clock, faults, en, enrich_runs, hist, call>>

\* the store looks for the document of the writer's next upsert
UpsertQuery(w) ==
    /\ writers[w].started
    /\ writers[w].phase = "idle"
    /\ writers[w].ops # <<>>
    /\ writers' = [writers EXCEPT ![w].phase = "queried",
                                  ![w].match = FindOne(db[Head(writers[w].ops).coll],
                                                       Head(writers[w].ops).op.filter, 1)]
    /\ UNCHANGED <<db, up, runs, rows_read, clock, faults, en, enrich_runs, hist, call>>

\* the store writes: it updates the document found; having found none it
\* inserts, and only a unique index makes the insert of a key that another
\* writer inserted meanwhile fail, after which the store runs the upsert again
Upserted(coll, name, match, op) ==
    IF match > 0 THEN UpdateMatched(coll, match, op)
    ELSE IF HasUniqueIndex(name) /\ FindOne(coll, op.filter, 1) > 0
    THEN UpdateMatched(coll, FindOne(coll, op.filter, 1), op)
    ELSE InsertUpserted(coll, op)

UpsertWrite(w) ==
    /\ writers[w].phase = "queried"
    /\ LET Write(name, op) ==
               db' = [db EXCEPT ![name] = Upserted(@, name, writers[w].match, op)]
       IN  Write(Head(writers[w].ops).coll, Head(writers[w].ops).op)
    /\ writers' = [writers EXCEPT ![w].phase = "idle", ![w].match = 0,
                                  ![w].ops = Tail(@)]
    /\ UNCHANGED <<up, runs, rows_read, clock, faults, en, enrich_runs, hist, call>>

ConcurrentNext ==
    \/ \E w \in Writers, row \in ValidRows : BuildBatch(w, row)
    \/ \E w \in Writers : UpsertQuery(w)
    \/ \E w \in Writers : UpsertWrite(w)

ConcurrentSpec == Init /\ [][ConcurrentNext]_vars

\* ------------------------------------------------- calls of the decomposer
\* rows with every combination of a valid, blank or unparsable apn, valid or
\* invalid zips, and a target or another state
RoutedRows ==
    {[BaseRow EXCEPT !["apn"] = a, !["property zip"] = pz, !["mailing zip"] = mz,
                     !["property state"] = st] :
        a \in {<<"1", "2">>, <<>>, <<" ">>, <<"n", "/", "a">>},
        pz \in {Zip98001, <<"1", "2", "3">>},
        mz \in {Zip98001, <<"1", "2", "3">>},
        st \in {<<"W", "A">>, <<"C", "A">>}}

\* one call of process_unified_row
DecomposeRow(row) ==
    /\ db.next_id <= MaxRouted
    /\ LET Return(r) ==
               /\ db' = r.db
               /\ call' = [fn |-> "process_unified_row", arg |-> row,
                           res |-> [processed |-> r.processed, entities |-> r.entities]]
       IN  Return(process_unified_row(row, db, clock))
    /\ UNCHANGED <<up, runs, rows_read, clock, faults, en, enrich_runs, hist, writers>>

RowNext ==
    \E row \in RoutedRows : DecomposeRow(row)

RowSpec == Init /\ [][RowNext]_vars

\* ----------------------------------------------------------- specifications
\* the ingestion pipeline: runs of process_unified_upload, one after the other
Next ==
    \/ StartUpload
    \/ \E row \in Rows, fault \in Faults : ReadRow(row, fault)
    \/ \E fault \in Faults : EndOfStream(fault)
    \/ StreamRaises

Spec == Init /\ [][Next]_vars

\* the fallback cascade: one ingestion run fills the store and the pending
\* queue, then runs of enrich_missing_apns work on the queue
CascadeNext ==
    \/ runs < MaxCascadeUploads /\ StartUpload
    \/ \E row \in Rows : rows_read < MaxCascadeRows /\ ReadRow(row, NoFault)
    \/ EndOfStream(NoFault)
    \/ \E limit \in 1..MaxLimit, skip \in BOOLEAN, apify_token \in BOOLEAN :
          EnrichStart(limit, skip, apify_token)
    \/ \E local_raises \in BOOLEAN, fault \in Faults :
          \E addr_sims \in [1..Len(db.properties) -> SimValues] :
              EnrichLocal(local_raises, addr_sims, EmptyNameSim, fault)
    \/ \E tries \in TrySequences, fault \in Faults :
          EnrichGoogle(tries, en.apify_token, fault)
    \/ \E tries \in TrySequences, fault \in Faults :
          EnrichApify(tries, fault)

CascadeSpec == Init /\ [][CascadeNext]_vars

\* ------------------------------------------------------------------ claims
CollOf(d, name) ==
    CASE name = "properties" -> d.properties
      [] name = "owners" -> d.owners
      [] name = "phones" -> d.phones
      [] name = "life_events" -> d.life_events

CollectionNames == {"properties", "owners", "phones", "life_events"}

Count(coll, filter) == Cardinality({i \in 1..Len(coll) : Matches(coll[i], filter)})

NoDup(arr) == \A i, j \in 1..Len(arr) : arr[i] = arr[j] => i = j

ArrayOf(doc, field) == IF field \in DOMAIN doc THEN doc[field] ELSE <<>>

\* the operations of the batch h that the store applied to the collection
AppliedOps(h, name) ==
    IF name \notin h.submitted THEN <<>>
    ELSE IF name \in h.failed THEN SubSeq(OpsOf(h.ops, name), 1, h.fault.at - 1)
    ELSE OpsOf(h.ops, name)

UniqueKey(coll, fields) ==
    \A i, j \in 1..Len(coll) :
        (\A f \in fields : coll[i][f] = coll[j][f]) => i = j

\* C1: however often a valid row is ingested, in one batch or in several, the
\* store holds no two property documents with its apn, no two owner documents
\* with its normalized_owner_id, no two phone documents with one number and no
\* two life events with one (apn, event_type, source_detail); it holds exactly
\* one document for every key that the last batch wrote; and no owner's emails,
\* tags or phone_ids holds a value twice.
C1_IdempotentIngestion ==
    /\ UniqueKey(db.properties, {"apn"})
    /\ UniqueKey(db.owners, {"normalized_owner_id"})
    /\ UniqueKey(db.phones, {"number"})
    /\ UniqueKey(db.life_events, {"apn", "event_type", "source_detail"})
    /\ \A i \in 1..Len(db.owners) :
           /\ NoDup(ArrayOf(db.owners[i], "emails"))
           /\ NoDup(ArrayOf(db.owners[i], "tags"))
           /\ NoDup(ArrayOf(db.owners[i], "phone_ids"))
    /\ \A name \in CollectionNames :
           \A k \in 1..Len(AppliedOps(hist, name)) :
               Count(CollOf(db, name), AppliedOps(hist, name)[k].filter) = 1

\* C1 witness: BaseRow was written in an earlier batch (its phone was created
\* before the last batch) and again, twice, in the last batch
C1_Witness ==
    /\ hist.called
    /\ hist.fault = NoFault
    /\ Len(hist.batch) = 2
    /\ \A i \in 1..Len(hist.batch) : hist.batch[i].data = BaseRow
    /\ Len(db.properties) = 1
    /\ Len(db.owners) = 1
    /\ \E i \in 1..Len(db.phones) :
           /\ db.phones[i].created_at < db.phones[i].last_updated
           /\ db.phones[i].linked_apns = <<clean_apn(BaseRow["apn"])>>

IsBlankApn(row) == Strip(Get(MappedRow(row), "apn")) = <<>>

IsTargetState(row) == Upper(Strip(Get(MappedRow(row), "property state"))) = <<"W", "A">>

CountRows(stream, Test(_)) == Cardinality({i \in 1..Len(stream) : Test(stream[i])})

\* C2 (as claimed): when an ingestion run has read its stream to the end, the
\* pending queue holds, of the candidates the run inserted, exactly one
\* "missing_apn" candidate per row of the stream with a blank apn, each with
\* status "pending".
C2_OnePendingPerBlankRow ==
    (up.pc = "done" /\ ~up.escaped) =>
        LET inserted == {c \in db.fallback_candidates :
                            c.id >= up.first_id /\ c.reason = "missing_apn"}
        IN  /\ Cardinality(inserted) = CountRows(up.stream, IsBlankApn)
            /\ \A c \in inserted : c.status = "pending" /\ IsBlankApn(c.raw_data)

\* C3 (as claimed): no row of another jurisdiction is ever in the pending queue
C3_NonTargetNeverPending ==
    \A c \in db.fallback_candidates : IsTargetState(c.raw_data)

\* C3 (amended): a row of another jurisdiction whose apn and zips validate is
\* dropped: it is in the pending queue under no reason, every stored property
\* is of the target jurisdiction, and every operation of a batch comes from a
\* row of the batch that is of the target jurisdiction.
C3_JurisdictionFilter ==
    /\ \A c \in db.fallback_candidates :
           ~IsTargetState(c.raw_data) =>
               /\ RowOutcome(c.raw_data) \in PendingReasons
               /\ c.reason = RowOutcome(c.raw_data)
    /\ \A i \in 1..Len(db.properties) : db.properties[i].address.state = <<"W", "A">>
    /\ LET target == {i \in 1..Len(hist.batch) : IsTargetState(hist.batch[i].data)}
           FromTarget(name, Key(_), RowKeys(_)) ==
               \A k \in 1..Len(OpsOf(hist.ops, name)) :
                   \E i \in target : Key(OpsOf(hist.ops, name)[k].filter) \in RowKeys(hist.batch[i].data)
       IN  /\ FromTarget("properties", LAMBDA f : f.apn,
                         LAMBDA row : {clean_apn(Get(MappedRow(row), "apn"))})
           /\ FromTarget("owners", LAMBDA f : f.normalized_owner_id,
                         LAMBDA row : {OwnerHashOf(row)})
           /\ FromTarget("phones", LAMBDA f : f.number,
                         LAMBDA row : {clean_phone(GetStr(row, "phone 1"))})
           /\ FromTarget("life_events", LAMBDA f : f.apn,
                         LAMBDA row : {clean_apn(Get(MappedRow(row), "apn"))})

\* C3 witness: the last batch held a row of another jurisdiction with a valid
\* apn and valid zips, and left nothing of it in the store or the queue
C3_Witness ==
    /\ hist.called
    /\ \E i \in 1..Len(hist.batch) : RowOutcome(hist.batch[i].data) = "dropped"
    /\ \A i \in 1..Len(hist.batch) : RowOutcome(hist.batch[i].data) = "dropped"
    /\ hist.nonempty = {}
    /\ db.fallback_candidates = {}
    /\ db.properties = <<>>

\* the results the cascade recorded for the candidate
ResultsOf(id) == {i \in 1..Len(en.results) : en.results[i].id = id}

\* the cascade has left the candidate of log entry i behind
Finished(i) == i < en.idx \/ en.pc = "finished"

\* C4 (as claimed): for every candidate whose local match reached the
\* threshold, neither external provider was called and every result reported
\* for it has method "local_db".
C4_LocalPrecedence ==
    \A i \in 1..Len(en.log) :
        en.log[i].local_accepted =>
            /\ en.log[i].google_calls = 0
            /\ en.log[i].apify_calls = 0
            /\ \A k \in ResultsOf(en.log[i].id) : en.results[k].method = "local_db"

\* C5: the cascade reports method "local_db" for a candidate exactly when the
\* best local score is at least 80 (800 on the model's scale); and for every
\* candidate it has left behind whose best local score was below 80, no
\* result carries the local method and the Google lookup was called.
C5_ConfidenceGate ==
    \A i \in 1..Len(en.log) :
        LET l == en.log[i]
            local == {k \in ResultsOf(l.id) : en.results[k].method = "local_db"}
        IN  /\ l.local_accepted <=> l.confidence >= CONFIDENCE_THRESHOLD * 10
            /\ local # {} <=> l.confidence >= CONFIDENCE_THRESHOLD * 10
            /\ \A k \in local : en.results[k].confidence = l.confidence
            /\ (Finished(i) /\ l.confidence >= 0
                    /\ l.confidence < CONFIDENCE_THRESHOLD * 10) =>
                   /\ l.google_calls >= 1
                   /\ l.resolved # None =>
                          \E k \in ResultsOf(l.id) :
                              /\ en.results[k].method \in {"google", "apify"}
                              /\ en.results[k].apn = l.resolved

\* C5 witness: a candidate whose best local score was 79.2 was not accepted
\* locally, the Google lookup was called for it and resolved it
C5_Witness ==
    \E i \in 1..Len(en.log) :
        /\ Finished(i)
        /\ en.log[i].confidence = 792
        /\ ~en.log[i].local_accepted
        /\ en.log[i].google_calls >= 1
        /\ en.log[i].resolved # None
        /\ \A k \in ResultsOf(en.log[i].id) : en.results[k].method = "google"

\* C6: a step that removes a candidate from the pending queue is a step of the
\* cascade on that candidate, in which an identifier was resolved, written
\* into the candidate's raw row, and the repaired row decomposed into entities.
C6_DeletedOnlyAfterRedecomposition ==
    [][\A c \in db.fallback_candidates :
          (\A d \in db'.fallback_candidates : d.id # c.id) =>
              /\ en.pc \in {"local", "google", "apify"}
              /\ en.candidates[en.idx].id = c.id
              /\ LET l == en'.log[en.idx]
                     repaired == [c.raw_data EXCEPT !["apn"] = l.resolved]
                 IN  /\ l.resolved # None
                     /\ l.redecomposed
                     /\ l.deleted
                     /\ en'.raw_data = repaired
                     /\ RowOutcome(repaired) = "decomposed"]_vars

\* C6 witness: the cascade resolved a candidate, its repaired row decomposed,
\* and the candidate is gone from the queue, while another candidate whose
\* repaired row does not decompose is still there
C6_Witness ==
    /\ \E i \in 1..Len(en.log) :
           /\ en.log[i].deleted
           /\ \A c \in db.fallback_candidates : c.id # en.log[i].id
    /\ \E i \in 1..Len(en.log) :
           /\ en.log[i].resolved # None
           /\ ~en.log[i].redecomposed
           /\ \E c \in db.fallback_candidates : c.id = en.log[i].id

\* C7 (as claimed): when a bulk write of a batch failed, the bulk write of
\* every other collection the batch has operations for was still submitted.
C7_OtherCollectionsSubmitted ==
    (hist.called /\ hist.failed # {} /\ hist.fault.kind = "BulkWriteError") =>
        hist.nonempty \subseteq hist.submitted

\* the session of the run is in the state its creation and its one final
\* update leave it in
SessionsConsistent ==
    /\ Len(db.upload_sessions) = runs
    /\ \A i \in 1..Len(db.upload_sessions) :
           LET s == db.upload_sessions[i]
           IN  /\ s.upload_id = i
               /\ s.finalized <= 1
               /\ s.finalized = 0 <=> s.status = "processing"
               /\ s.finalized = 0 => i = up.session_id /\ up.pc = "reading" /\ s.end_time = 0
               /\ s.finalized = 1 =>
                      /\ s.status \in {"completed", "failed"}
                      /\ s.end_time > 0
                      /\ s.status = "failed" <=> s.error_message # ""
    /\ up.pc = "done" =>
           LET s == db.upload_sessions[up.session_id]
           IN  /\ s.finalized = 1
               /\ s.status = "failed" <=> up.escaped
               /\ s.status = "completed" <=> ~up.escaped

\* C8: every run has one session, created with status "processing"; a run that
\* has ended has updated it finally exactly once, to "failed" with the message
\* of the exception when an exception left the row loop or the last batch, to
\* "completed" with an end time otherwise; and no step changes a session that
\* was finalized.
C8_SessionFinalizedOnce ==
    /\ []SessionsConsistent
    /\ [][/\ \A i \in 1..Len(db.upload_sessions) :
                 db.upload_sessions[i].finalized = 1 =>
                     db.upload_sessions'[i] = db.upload_sessions[i]
          /\ Len(db.upload_sessions') > Len(db.upload_sessions) =>
                 /\ Len(db.upload_sessions') = Len(db.upload_sessions) + 1
                 /\ db.upload_sessions'[Len(db.upload_sessions')].status = "processing"
                 /\ db.upload_sessions'[Len(db.upload_sessions')].finalized = 0]_vars

\* C8 witness: a first run failed on an exception, a second run completed;
\* each left its session finalized once
C8_Witness ==
    /\ runs = 2
    /\ up.pc = "done"
    /\ db.upload_sessions[1].status = "failed"
    /\ db.upload_sessions[1].error_message = "Exception"
    /\ db.upload_sessions[1].finalized = 1
    /\ db.upload_sessions[2].status = "completed"
    /\ db.upload_sessions[2].end_time > db.upload_sessions[1].end_time
    /\ db.upload_sessions[2].finalized = 1
    /\ db.upload_sessions[2].processed_count > 0

\* the step called process_unified_batch (only such a step reads the clock)
BatchStep == clock' # clock

\* the operations of the batch h that the store applied to the document
OpsFor(h, name, doc) ==
    SelectSeq(AppliedOps(h, name), LAMBDA op : Matches(doc, op.filter))

\* every document of the collection is still there after the step, and each of
\* the fields still holds every value it held before
NeverShrinks(name, fields) ==
    /\ Len(CollOf(db, name)) <= Len(CollOf(db', name))
    /\ \A i \in 1..Len(CollOf(db, name)) :
           \A f \in fields :
               \A k \in 1..Len(ArrayOf(CollOf(db, name)[i], f)) :
                   Contains(ArrayOf(CollOf(db', name)[i], f), CollOf(db, name)[i][f][k])

\* after the step, every value that an applied operation of its batch carried
\* for one of the fields is in the document the operation addresses
HoldsBatchValues(name, fields) ==
    \A k \in 1..Len(AppliedOps(hist', name)) :
        LET op == AppliedOps(hist', name)[k]
        IN  \E i \in 1..Len(CollOf(db', name)) :
                /\ Matches(CollOf(db', name)[i], op.filter)
                /\ \A f \in fields \cap DOMAIN op.addToSet :
                       \A j \in 1..Len(op.addToSet[f]) :
                           Contains(ArrayOf(CollOf(db', name)[i], f), op.addToSet[f][j])

\* C9: in every step, an owner's emails, tags and phone_ids, a phone's
\* linked_apns and linked_owners and a life event's related_tags keep every
\* value they held, and after a batch they also hold the values carried by
\* the rows of that batch whose operations the store applied.
C9_SetsNeverShrink ==
    [][/\ NeverShrinks("owners", {"emails", "tags", "phone_ids"})
       /\ NeverShrinks("phones", {"linked_apns", "linked_owners"})
       /\ NeverShrinks("life_events", {"related_tags"})
       /\ BatchStep =>
              /\ HoldsBatchValues("owners", {"emails", "tags", "phone_ids"})
              /\ HoldsBatchValues("phones", {"linked_apns", "linked_owners"})
              /\ HoldsBatchValues("life_events", {"related_tags"})]_vars

\* C9 witness: two rows of one owner with different emails, tags and apns and
\* one phone number were ingested; the owner holds both emails and the tags of
\* both rows, the phone both apns
C9_Witness ==
    /\ \E i \in 1..Len(db.owners) :
           /\ Len(db.owners[i].emails) = 2
           /\ Len(db.owners[i].tags) >= 3
           /\ Len(db.owners[i].phone_ids) = 1
    /\ \E i \in 1..Len(db.phones) :
           /\ Len(db.phones[i].linked_apns) = 2
           /\ Len(db.phones[i].linked_owners) = 1

\* the fields keep their value in every document that was there before the
\* step, and a document the step created carries those of the first applied
\* operation that addresses it
SetOnce(name, fields) ==
    /\ Len(CollOf(db, name)) <= Len(CollOf(db', name))
    /\ \A i \in 1..Len(CollOf(db, name)) :
           \A f \in fields : CollOf(db', name)[i][f] = CollOf(db, name)[i][f]
    /\ \A i \in (Len(CollOf(db, name)) + 1)..Len(CollOf(db', name)) :
           LET ops == OpsFor(hist', name, CollOf(db', name)[i])
           IN  /\ ops # <<>>
               /\ \A f \in fields : CollOf(db', name)[i][f] = ops[1].setOnInsert[f]

\* after a batch, the fields of a document carry the values of the last
\* applied operation of the batch that addresses it
TakesLatest(name, fields) ==
    \A i \in 1..Len(CollOf(db', name)) :
        LET ops == OpsFor(hist', name, CollOf(db', name)[i])
        IN  ops # <<>> =>
                \A f \in fields : CollOf(db', name)[i][f] = ops[Len(ops)].set[f]

\* C10: an owner's full_name, mailing_address and apn and a phone's phone_id,
\* type, status, tags and created_at are those of the first applied operation
\* for the document and no later step changes them; an owner's status and
\* last_updated and a phone's last_updated are those of the latest.
C10_SetOnceFields ==
    [][/\ SetOnce("owners", {"full_name", "mailing_address", "apn"})
       /\ SetOnce("phones", {"phone_id", "type", "status", "tags", "created_at"})
       /\ BatchStep =>
              /\ TakesLatest("owners", {"status", "last_updated"})
              /\ TakesLatest("phones", {"last_updated"})]_vars

\* C10 witness: BaseRow created the owner and the phone, SecondRow of the same
\* owner and number came in a later batch: name and apn are BaseRow's, the
\* status is SecondRow's, and the phone was created before its last update
C10_Witness ==
    /\ \E i \in 1..Len(db.owners) :
           /\ db.owners[i].full_name = <<"Jane", "Doe">>
           /\ db.owners[i].apn = clean_apn(BaseRow["apn"])
           /\ db.owners[i].status = "sold"
    /\ \E i \in 1..Len(db.phones) :
           /\ db.phones[i].phone_id = PhoneIdOf(clean_phone("206-555-0100"))
           /\ db.phones[i].created_at < db.phones[i].last_updated
           /\ Len(db.phones[i].linked_apns) = 2

\* the sales (date, amount) that the property document records
SaleEntries(doc) ==
    {[date |-> ArrayOf(doc, "sale_history")[k].date,
      amount |-> ArrayOf(doc, "sale_history")[k].amount] :
        k \in 1..Len(ArrayOf(doc, "sale_history"))}

\* C11 (as claimed): in every step, the sale_history of every stored property
\* still records every sale it recorded before the step.
C11_SaleHistoryAppendOnly ==
    [][\A i \in 1..Len(db.properties) :
          SaleEntries(db.properties[i]) \subseteq SaleEntries(db.properties'[i])]_vars

\* the life events that the decomposer yields for the row from the column
FieldEventsOf(row, k) ==
    {j \in 1..Len(LifeEvents(row, clock)) :
        /\ "source_detail" \in DOMAIN LifeEvents(row, clock)[j]
        /\ LifeEvents(row, clock)[j].source = "CSV Field"
        /\ LifeEvents(row, clock)[j].source_detail = known_life_event_fields[k].field
        /\ LifeEvents(row, clock)[j].event_type = known_life_event_fields[k].event_type}

\* C12 (as claimed): for every valid row of a batch and every field of the
\* life-event dictionary that the row carries with a non-empty value, the
\* decomposer yields exactly one life event with the field's event_type, source
\* "CSV Field" and the field name as source_detail.
C12_FieldLifeEvents ==
    \A i \in 1..Len(hist.batch) :
        RowOutcome(hist.batch[i].data) = "decomposed" =>
            \A k \in 1..Len(known_life_event_fields) :
                GetStr(hist.batch[i].data, known_life_event_fields[k].field) # "" =>
                    Cardinality(FieldEventsOf(hist.batch[i].data, k)) = 1

\* C13 (as claimed): normalizing the result of normalize_column_name again
\* gives the same name.
C13_NormalizeIdempotent ==
    call.fn = "normalize_column_name" => normalize_column_name(call.res) = call.res

AllDigits(s) == \A i \in 1..Len(s) : IsDigit(s[i])

\* C14 (as claimed): clean_apn is total and fixed-width: for every input,
\* inputs with more than ten digits included, it returns either null or a
\* string of exactly ten digits.
C14_CleanApnFixedWidth ==
    call.fn = "clean_apn" =>
        \/ call.res = None
        \/ Len(call.res) = APN_WIDTH /\ AllDigits(call.res)

WritersDone == \A w \in Writers : writers[w].started /\ writers[w].ops = <<>>

\* C15 (as claimed): when two ingestion runs concurrently upsert rows that
\* resolve to the same normalized_owner_id, or to the same life-event key, the
\* store ends with exactly one owner document, and one life-event document,
\* for that key.
C15_OneDocumentPerKeyUnderConcurrency ==
    WritersDone =>
        /\ UniqueKey(db.owners, {"normalized_owner_id"})
        /\ UniqueKey(db.life_events, {"apn", "event_type", "source_detail"})

\* the unique indexes that exist do serialize the upserts of their collections
UniqueIndexesSerialize ==
    /\ UniqueKey(db.properties, {"apn"})
    /\ UniqueKey(db.phones, {"number"})

\* the write operations of the batch h that failed: an ordered bulk_write stops
\* at its first failing operation
FailedWrites(h) == IF h.fault.kind = "BulkWriteError" THEN Cardinality(h.failed) ELSE 0

ErrorCountOf(d, sid) == d.upload_sessions[sid].error_count

\* C16 (as claimed): a batch processed inside the row loop increments the
\* session's error_count by exactly the number of write operations that failed
\* in its bulk writes (0 when every write succeeded), and the final update of
\* the session keeps the count reached so far, adding the failed writes of the
\* last batch.
C16_ErrorCountCountsFailedWrites ==
    [][up.pc = "reading" =>
          /\ (BatchStep /\ up'.pc = "reading" /\ ~hist'.raised) =>
                 ErrorCountOf(db', up.session_id)
                     = ErrorCountOf(db, up.session_id) + FailedWrites(hist')
          /\ up'.pc = "done" =>
                 ErrorCountOf(db', up.session_id)
                     = ErrorCountOf(db, up.session_id)
                       + (IF BatchStep THEN FailedWrites(hist') ELSE 0)]_vars

\* C17 (as claimed): every batch handed to process_unified_batch during an
\* ingestion run has at most batch_size rows, also after an earlier call of
\* process_unified_batch raised an exception.
C17_BatchesBounded ==
    hist.called => Len(hist.batch) <= batch_size

FailsBlankApn(row) == Strip(Get(MappedRow(row), "apn")) = <<>>

FailsApnParse(row) == clean_apn(Get(MappedRow(row), "apn")) = None

FailsPropertyZip(row) == extract_best_zip(row, <<"property zip 5", "property zip">>) = None

FailsMailingZip(row) == extract_best_zip(row, <<"mailing zip 5", "mailing zip">>) = None

\* the reason of the first check that the row fails, in the order of the spec
FirstFailing(row) ==
    IF FailsBlankApn(row) THEN "missing_apn"
    ELSE IF FailsApnParse(row) THEN "apn_not_numeric_or_too_short"
    ELSE IF FailsPropertyZip(row) THEN "invalid_property_zip"
    ELSE IF FailsMailingZip(row) THEN "invalid_mailing_zip"
    ELSE "none"

\* C18: a call of process_unified_row on a row that fails a check adds exactly
\* one candidate to the pending queue: it holds the row, has status "pending"
\* and the reason of the first failing check in the order blank apn, unparsable
\* apn, property zip, mailing zip, whatever later checks would have said; the
\* call returns no entity documents and leaves the entity collections alone.
\* A row that fails no check adds no candidate.
C18_ValidationOrder ==
    [][call'.fn = "process_unified_row" =>
          IF FirstFailing(call'.arg) # "none"
          THEN /\ \E c \in db'.fallback_candidates :
                      /\ c \notin db.fallback_candidates
                      /\ db'.fallback_candidates = db.fallback_candidates \cup {c}
                      /\ c.raw_data = call'.arg
                      /\ c.status = "pending"
                      /\ c.reason = FirstFailing(call'.arg)
               /\ call'.res = [processed |-> FALSE, entities |-> None]
               /\ \A name \in CollectionNames : CollOf(db', name) = CollOf(db, name)
          ELSE db'.fallback_candidates = db.fallback_candidates]_vars

\* C18 witness: a row with an unparsable apn and two invalid zips was routed
\* with the reason of the apn, after a row with a valid apn and two invalid
\* zips was routed with the reason of the property zip
C18_Witness ==
    /\ call.fn = "process_unified_row"
    /\ FailsApnParse(call.arg) /\ ~FailsBlankApn(call.arg)
    /\ FailsPropertyZip(call.arg) /\ FailsMailingZip(call.arg)
    /\ call.res.entities = None
    /\ Cardinality(db.fallback_candidates) = 2
    /\ \E c \in db.fallback_candidates :
           c.raw_data = call.arg /\ c.reason = "apn_not_numeric_or_too_short"
    /\ \E c \in db.fallback_candidates :
           /\ c.reason = "invalid_property_zip"
           /\ FailsMailingZip(c.raw_data)

\* C19 (as claimed): every zip that extract_best_zip accepts is a string of
\* exactly five digits, both when the column validates directly and when the
\* prefix before "-" of a ZIP+4 value is used.
C19_AcceptedZipIsFiveDigits ==
    (call.fn = "extract_best_zip" /\ call.res # None) =>
        Len(call.res) = ZIP_LEN /\ AllDigits(call.res)

RowTags(row) == parse_array(Get(MappedRow(row), "tags"))

RowApn(row) == clean_apn(Get(MappedRow(row), "apn"))

\* C20 (as claimed): after a batch whose bulk writes all succeeded, the store
\* holds exactly one SALE_REASON life event for the apn of every decomposed
\* row of the batch with a sale-reason tag, and a PHYSICAL_DISTRESS life event
\* for the apn of every decomposed row with a "poor condition" or "fair
\* condition" tag.
C20_TagAnalysisEventsStored ==
    (hist.called /\ hist.fault = NoFault) =>
        \A i \in 1..Len(hist.batch) :
            RowOutcome(hist.batch[i].data) = "decomposed" =>
                /\ (\E k \in 1..Len(RowTags(hist.batch[i].data)) :
                        IsSaleReasonTag(RowTags(hist.batch[i].data)[k]))
                   => Count(db.life_events, [apn |-> RowApn(hist.batch[i].data),
                                             event_type |-> "SALE_REASON"]) = 1
                /\ (\E k \in 1..Len(RowTags(hist.batch[i].data)) :
                        IsConditionTag(RowTags(hist.batch[i].data)[k]))
                   => Count(db.life_events, [apn |-> RowApn(hist.batch[i].data),
                                             event_type |-> "PHYSICAL_DISTRESS"]) >= 1

\* the candidate of log entry i went through every configured method and none
\* returned an identifier: the run reports it once, as "failed"
Exhausted(i) ==
    /\ Finished(i)
    /\ en.log[i].resolved = None
    /\ \E k \in ResultsOf(en.log[i].id) : en.results[k].status = "failed"

\* what the stored record of a candidate says about its enrichment
StoredMarks(c) == {c.reason, c.status, c.enrichment_status, c.enrichment_method}

\* C21 (as claimed): a candidate for which the local match, the primary lookup
\* and the configured secondary lookup all ended without an identifier is still
\* in the pending queue, eligible for a later run, and its stored record marks
\* it failed with the reason "no_identifier_found" (the code's name for the
\* outcome, "no_apn_found", is accepted too).
C21_ExhaustionRecorded ==
    \A i \in 1..Len(en.log) :
        Exhausted(i) =>
            \E c \in db.fallback_candidates :
                /\ c.id = en.log[i].id
                /\ c.enrichment_status = "failed"
                /\ MatchFilter(c, TRUE)
                /\ StoredMarks(c) \cap {"no_identifier_found", "no_apn_found"} # {}

\* the part of C21 that the code keeps: the record is marked failed and a
\* later run selects it again
ExhaustedStaysEligible ==
    \A i \in 1..Len(en.log) :
        Exhausted(i) =>
            \E c \in db.fallback_candidates :
                c.id = en.log[i].id /\ c.enrichment_status = "failed" /\ MatchFilter(c, TRUE)

\* the row lacks one of the address fields that line 952 asks for
LacksAddress(raw_data) ==
    \/ GetStr(raw_data, "property address") = ""
    \/ GetStr(raw_data, "property city") = ""
    \/ Strip(Get(raw_data, "property state")) = <<>>

\* C22 (as claimed): a candidate whose processing raised an unexpected
\* exception ("Missing address fields") is marked with status "error", which
\* differs from the "failed" of an exhausted candidate, in its stored record
\* and in the one entry the run reports for it, and the entry holds the
\* exception text.
C22_ErrorOutcomeMarked ==
    \A c \in db.fallback_candidates :
        \A i \in 1..Len(en.log) :
            (c.id = en.log[i].id /\ Finished(i) /\ LacksAddress(c.raw_data)) =>
                /\ \A k \in ResultsOf(c.id) :
                       /\ en.results[k].status = "error"
                       /\ en.results[k].error = "Missing address fields"
                /\ Cardinality(ResultsOf(c.id)) = 1
                /\ c.enrichment_status = "error"

\* the part of C22 that the code keeps: the entry of the response
ErrorOutcomeReported ==
    \A c \in db.fallback_candidates :
        \A i \in 1..Len(en.log) :
            (c.id = en.log[i].id /\ Finished(i) /\ LacksAddress(c.raw_data)) =>
                /\ \A k \in ResultsOf(c.id) :
                       /\ en.results[k].status = "error"
                       /\ en.results[k].error = "Missing address fields"
                /\ Cardinality(ResultsOf(c.id)) = 1

\* the invocations of one method for one candidate: at most MAX_RETRIES, each
\* but the first made after the one before it raised, with waits of
\* RETRY_DELAY times 1, 2, ... seconds between them
BoundedRetry(t) ==
    /\ Len(t.made) <= MAX_RETRIES
    /\ \A k \in 1..(Len(t.made) - 1) : t.made[k] = "raise"
    /\ Len(t.sleeps) = (IF t.made = <<>> THEN 0 ELSE Len(t.made) - 1)
    /\ \A k \in 1..Len(t.sleeps) : t.sleeps[k] = 2 * k

\* every invocation of the method raised, the last allowed one included
GaveUp(t) == Len(t.made) = MAX_RETRIES /\ t.made[MAX_RETRIES] = "raise"

\* C23: for each candidate each cascade method is invoked at most MAX_RETRIES
\* (3) times, a re-invocation happens only after the method raised, with waits
\* of 2 s then 4 s; and when the last attempt raises too, the candidate is not
\* aborted: the next method is invoked (Google after the local match, Apify
\* after Google when a token is configured), and the candidate ends with an
\* "enriched" or "failed" entry, never with an "error" entry.
C23_BoundedRetryFallThrough ==
    \A i \in 1..Len(en.log) :
        /\ BoundedRetry(en.log[i].local_tries)
        /\ BoundedRetry(en.log[i].google_tries)
        /\ BoundedRetry(en.log[i].apify_tries)
        /\ en.log[i].google_calls = Len(en.log[i].google_tries.made)
        /\ en.log[i].apify_calls = Len(en.log[i].apify_tries.made)
        /\ Finished(i) =>
               /\ GaveUp(en.log[i].local_tries) => en.log[i].google_tries.made # <<>>
               /\ (GaveUp(en.log[i].google_tries) /\ en.apify_token) =>
                      en.log[i].apify_tries.made # <<>>
               /\ (\/ GaveUp(en.log[i].local_tries)
                   \/ GaveUp(en.log[i].google_tries)
                   \/ GaveUp(en.log[i].apify_tries)) =>
                      /\ ResultsOf(en.log[i].id) # {}
                      /\ \A k \in ResultsOf(en.log[i].id) :
                             en.results[k].status \in {"enriched", "failed"}

\* C23 witness: for one candidate the local match raised three times, Google
\* raised twice and then returned nothing, and Apify raised three times; the
\* candidate ended as failed
C23_Witness ==
    \E i \in 1..Len(en.log) :
        /\ Finished(i)
        /\ GaveUp(en.log[i].local_tries)
        /\ en.log[i].google_tries.made = <<"raise", "raise", "return">>
        /\ en.log[i].google_tries.sleeps = <<2, 4>>
        /\ GaveUp(en.log[i].apify_tries)
        /\ \E k \in ResultsOf(en.log[i].id) : en.results[k].status = "failed"

\* the provider answered one of the lookups with a block or a timeout
BlockedOrTimedOut(t) ==
    \E k \in 1..Len(t.errors) : t.errors[k] \in {"timeout", "captcha"}

\* C24 (as claimed): once an external provider has answered a lookup with a
\* block (captcha) or a timeout during a cascade run, no further lookup is
\* sent to that provider for any later candidate of the run.
C24_ProviderBackOff ==
    \A i, j \in 1..Len(en.log) :
        i < j =>
            /\ BlockedOrTimedOut(en.log[i].google_tries) => en.log[j].google_tries.made = <<>>
            /\ BlockedOrTimedOut(en.log[i].apify_tries) => en.log[j].apify_tries.made = <<>>

\* the candidates that the run has left behind
Processed == {i \in 1..Len(en.log) : Finished(i)}

SuccessCount == en.metrics.local_db + en.metrics.google + en.metrics.apify

\* C25 (as claimed): a cascade run processes every selected candidate whatever
\* happened to the earlier ones and appends exactly one entry to its results
\* for each candidate, so that at the end processed_count (the number of
\* entries) equals the number of selected candidates; and the sum of the
\* per-source success counts never exceeds metrics.processed.
C25_OneOutcomePerCandidate ==
    /\ \A i \in Processed : Cardinality(ResultsOf(en.log[i].id)) = 1
    /\ en.pc = "finished" =>
           /\ Len(en.log) = Len(en.candidates)
           /\ en.metrics.processed = Len(en.candidates)
           /\ Len(en.results) = Len(en.candidates)
    /\ SuccessCount <= en.metrics.processed

\* the step belongs to a run of enrich_missing_apns
CascadeStep == en' # en

\* C26 (as claimed): a step of the cascade on a candidate, the re-decomposition
\* of its repaired row in move_out_of_fallback included, leaves the number of
\* candidates in the pending queue unchanged or smaller by one and inserts no
\* new candidate.
C26_CascadeNeverGrowsQueue ==
    [][CascadeStep =>
          /\ Cardinality(db'.fallback_candidates) <= Cardinality(db.fallback_candidates)
          /\ Cardinality(db'.fallback_candidates) >= Cardinality(db.fallback_candidates) - 1
          /\ \A c \in db'.fallback_candidates :
                 \E d \in db.fallback_candidates : d.id = c.id]_vars

\* the candidates that the running or last ingestion run inserted for the row
InsertedFor(row) ==
    {c \in db.fallback_candidates : c.id >= up.first_id /\ c.raw_data = row}

Occurrences(stream, row) == Cardinality({i \in 1..Len(stream) : stream[i] = row})

\* C27 (as claimed): each row of the stream is passed to the decomposer exactly
\* once per ingestion run: when the run has read its stream to the end, the
\* queue holds, for every row that is routed to pending, as many candidates of
\* the run as the stream has copies of the row, also when a call of
\* process_unified_batch raised for the batch that held the row.
C27_RowDecomposedOncePerRun ==
    (up.pc = "done" /\ ~up.escaped) =>
        \A i \in 1..Len(up.stream) :
            RowOutcome(up.stream[i]) \in PendingReasons =>
                Cardinality(InsertedFor(up.stream[i])) = Occurrences(up.stream, up.stream[i])

\* the phone ids built from the numbers of the rows of the owner
PhoneIdsOfOwner(normalized_owner_id) ==
    {PhoneIdOf(clean_phone(GetStr(row, "phone 1"))) :
        row \in {r \in Rows : /\ RowOutcome(r) = "decomposed"
                              /\ OwnerHashOf(r) = normalized_owner_id
                              /\ clean_phone(GetStr(r, "phone 1")) # ""}}

\* C28 (as claimed): after any sequence of ingestions every identifier in a
\* phone document's linked_owners is the owner_id stored on some owner
\* document, and every phone_id in an owner's phone_ids is the phone_id built
\* from a number that a row of that owner carries.
C28_PhoneLinksIntegrity ==
    /\ \A i \in 1..Len(db.phones) :
           \A k \in 1..Len(db.phones[i].linked_owners) :
               \E j \in 1..Len(db.owners) :
                   /\ "owner_id" \in DOMAIN db.owners[j]
                   /\ db.owners[j].owner_id = db.phones[i].linked_owners[k]
    /\ \A j \in 1..Len(db.owners) :
           \A k \in 1..Len(ArrayOf(db.owners[j], "phone_ids")) :
               db.owners[j].phone_ids[k] \in PhoneIdsOfOwner(db.owners[j].normalized_owner_id)

\* the part of C28 that the code keeps: the phone ids of the stored owners
OwnerPhoneIdsFromRows ==
    \A j \in 1..Len(db.owners) :
        \A k \in 1..Len(ArrayOf(db.owners[j], "phone_ids")) :
            db.owners[j].phone_ids[k] \in PhoneIdsOfOwner(db.owners[j].normalized_owner_id)

EnrichedMarks == {"enriched_via_local_db", "enriched_via_google", "enriched_via_apify"}

\* C29 (as claimed): at the end of a cascade run every candidate that the run
\* reports as enriched has been removed from the pending queue, and no
\* candidate is left in the queue marked enriched_via_*, which would exclude it
\* from later runs.
C29_EnrichedCandidatesRemoved ==
    en.pc = "finished" =>
        /\ \A k \in 1..Len(en.results) :
               en.results[k].status = "enriched" =>
                   \A c \in db.fallback_candidates : c.id # en.results[k].id
        /\ \A c \in db.fallback_candidates : c.enrichment_status \notin EnrichedMarks

\* C30 (as claimed): whenever the cascade has deleted a pending candidate, the
\* store holds a property document with the resolved apn, also when a bulk
\* write of the re-ingestion batch failed.
C30_NoRowLostByCascade ==
    \A i \in 1..Len(en.log) :
        en.log[i].deleted =>
            Count(db.properties, [apn |-> clean_apn(en.log[i].resolved)]) >= 1

====
